---- MODULE Spec2Model ----
(***************************************************************************)
(* State-machine model of the solana-escrow program (GotokHQ).            *)
(*                                                                         *)
(* The ledger is a set of accounts (key, owner program, lamports, data).   *)
(* One invocation = one call of Processor::process with an account list,   *)
(* signer flags and a decoded instruction.  A handler is an operator from  *)
(* (ledger, input) to an outcome [res, L, log, base]; the host verifies    *)
(* what a handler that returned Ok wrote, keeps the ledger of a successful *)
(* instruction and discards the ledger of a failed one.                    *)
(***************************************************************************)
EXTENDS Integers, Sequences, FiniteSets, TLC

(***************************************************************************)
(* Bounds of the model.                                                    *)
(***************************************************************************)
\* Largest token amount a deposit may bring the vault to, and largest
\* amount / fee an Init instruction declares.
MaxAmount == 2
\* Largest value of the (reduced-width) u64 used by checked_add/checked_sub.
U64_MAX == 7
\* Cap of the count of successful Settle and Cancel invocations on a record.
MaxCount == 2

(***************************************************************************)
(* Program constants.                                                      *)
(***************************************************************************)
\* Escrow::LEN
LEN == 211
\* spl_token::state::Account::LEN, the size of a token account
TOKEN_ACCOUNT_LEN == 165

(***************************************************************************)
(* Account keys.                                                           *)
(***************************************************************************)
\* programs and sysvars
PROGRAM_ID == "PROG"        \* this program (declare_id!)
SPL_TOKEN_ID == "TOKEN"     \* spl_token::id()
SYSTEM_ID == "SYSTEM"       \* the system program (the all-zero key)
RENT_ID == "RENT"           \* the rent sysvar
FOREIGN_ID == "FOREIGN"     \* some other program, not written here
\* wallets
P == "P"                    \* the payer, first owner of the vault
A == "A"                    \* the authority the payer names at Init
M == "M"                    \* a third party
\* token accounts
V == "V"                    \* the vault (temporary token account)
T1 == "T1"
T2 == "T2"
U == "U"                    \* allocated for the token program, not initialized
\* escrow-record accounts
E == "E"                    \* allocated for this program, zeroed
F == "F"                    \* owned by FOREIGN_ID, record bytes written by it

Wallets == {P, A, M}
TokenAccounts == {V, T1, T2, U}
StateKeys == Wallets \cup TokenAccounts \cup {E, F}

(***************************************************************************)
(* lib.rs: the derived program authority.                                  *)
(***************************************************************************)
PREFIX == "escrow"

\* Pubkey::find_program_address(&[PREFIX, program_id], program_id): a key
\* that is a function of the seed prefix and the program id.
find_program_authority(program_id) ==
    IF program_id = PROGRAM_ID THEN "PDA" ELSE "PDA_OF_OTHER"

PDA == find_program_authority(PROGRAM_ID)

(***************************************************************************)
(* state.rs: the Escrow record and its codec.                              *)
(***************************************************************************)
RECURSIVE from_le_bytes_at(_, _)
from_le_bytes_at(b, i) ==
    IF i > Len(b) THEN 0 ELSE b[i] + 256 * from_le_bytes_at(b, i + 1)

\* u64::from_le_bytes
from_le_bytes(b) == from_le_bytes_at(b, 1)

RECURSIVE to_le_bytes_n(_, _)
to_le_bytes_n(n, k) ==
    IF k = 0 THEN << >> ELSE <<n % 256>> \o to_le_bytes_n(n \div 256, k - 1)

\* u64::to_le_bytes
to_le_bytes(n) == to_le_bytes_n(n, 8)

\* `b as u8` for a bool
bool_as_u8(b) == IF b THEN 1 ELSE 0

\* A freshly allocated 211-byte region: every byte zero.  The eleven fields
\* are kept in wire order: three flag bytes, six 32-byte keys (the all-zero
\* key is the system program's), two 8-byte little-endian integers.
ZeroRegion ==
    <<0, 0, 0, SYSTEM_ID, SYSTEM_ID, SYSTEM_ID, SYSTEM_ID, SYSTEM_ID, SYSTEM_ID,
      to_le_bytes(0), to_le_bytes(0)>>

\* Escrow::unpack_from_slice on a 211-byte region; "InvalidAccountData"
\* when a flag byte is neither 0 nor 1.
unpack_from_slice(src) ==
    IF src[1] \notin {0, 1} \/ src[2] \notin {0, 1} \/ src[3] \notin {0, 1}
    THEN [err |-> "InvalidAccountData"]
    ELSE [err |-> "Ok",
          is_initialized |-> (src[1] = 1),
          is_settled     |-> (src[2] = 1),
          is_canceled    |-> (src[3] = 1),
          payer          |-> src[4],
          payer_token    |-> src[5],
          payee_token    |-> src[6],
          vault_token    |-> src[7],
          authority      |-> src[8],
          fee_token      |-> src[9],
          amount         |-> from_le_bytes(src[10]),
          fee            |-> from_le_bytes(src[11])]

\* Variant of pack_into_slice that writes the fee account before the
\* authority.
pack_into_slice_fee_before_authority(e) ==
    <<bool_as_u8(e.is_initialized), bool_as_u8(e.is_settled), bool_as_u8(e.is_canceled),
      e.payer, e.payer_token, e.payee_token, e.vault_token, e.fee_token, e.authority,
      to_le_bytes(e.amount), to_le_bytes(e.fee)>>

\* Escrow::pack_into_slice
pack_into_slice(e) ==
    <<bool_as_u8(e.is_initialized), bool_as_u8(e.is_settled), bool_as_u8(e.is_canceled),
      e.payer, e.payer_token, e.payee_token, e.vault_token, e.authority, e.fee_token,
      to_le_bytes(e.amount), to_le_bytes(e.fee)>>

(***************************************************************************)
(* Account data.  An account's data is a token account (165 bytes), a      *)
(* 211-byte region, or nothing (a wallet, a purged account).               *)
(***************************************************************************)
NoData == [kind |-> "empty"]
RegionData(bytes) == [kind |-> "region", bytes |-> bytes]
TokenData(native, tokOwner, amount) ==
    [kind |-> "token", initialized |-> TRUE,
     is_native |-> native, owner |-> tokOwner, amount |-> amount]
\* 165 zero bytes: the state is Uninitialized, the owner the all-zero key.
UninitializedTokenData ==
    [kind |-> "token", initialized |-> FALSE,
     is_native |-> FALSE, owner |-> SYSTEM_ID, amount |-> 0]

data_len(d) ==
    IF d.kind = "region" THEN LEN
    ELSE IF d.kind = "token" THEN TOKEN_ACCOUNT_LEN ELSE 0

\* Variant of is_initialized that takes a settled record for a blank one.
is_initialized_unless_settled(escrow) ==
    escrow.is_initialized /\ ~escrow.is_settled

\* IsInitialized::is_initialized for Escrow.
is_initialized(escrow) == escrow.is_initialized

\* Pack::unpack_unchecked for Escrow: the length, then unpack_from_slice.
Escrow_unpack_unchecked(d) ==
    IF data_len(d) # LEN THEN [err |-> "InvalidAccountData"]
    ELSE unpack_from_slice(d.bytes)

\* Pack::unpack for Escrow: unpack_unchecked, then is_initialized.
Escrow_unpack(d) ==
    LET e == Escrow_unpack_unchecked(d)
    IN  IF e.err # "Ok" THEN e
        ELSE IF ~is_initialized(e) THEN [err |-> "UninitializedAccount"]
        ELSE e

\* Pack::unpack_unchecked for the token account: the length, then the
\* fields.
TokenAccount_unpack_unchecked(d) ==
    IF data_len(d) # TOKEN_ACCOUNT_LEN THEN [err |-> "InvalidAccountData"]
    ELSE [err |-> "Ok", is_initialized |-> d.initialized,
          is_native |-> d.is_native, owner |-> d.owner, amount |-> d.amount]

\* Pack::unpack for the token account: unpack_unchecked, then
\* is_initialized.
TokenAccount_unpack(d) ==
    LET t == TokenAccount_unpack_unchecked(d)
    IN  IF t.err # "Ok" THEN t
        ELSE IF ~t.is_initialized THEN [err |-> "UninitializedAccount"]
        ELSE t

(***************************************************************************)
(* utils.rs: the guards.  Each yields "Ok" or its error.                   *)
(***************************************************************************)
\* Variant of assert_signer that accepts an account that has not signed.
assert_signer_any(key, signers) == "Ok"

assert_signer(key, signers) ==
    IF key \in signers THEN "Ok" ELSE "MissingRequiredSignature"

assert_owned_by(L, key, ownerId) ==
    IF L.owner[key] # ownerId THEN "IllegalOwner" ELSE "Ok"

\* Variant of assert_account_key that accepts any key.
assert_account_key_any(key, expected) == "Ok"

assert_account_key(key, expected) ==
    IF key # expected THEN "InvalidArgument" ELSE "Ok"

\* Rent::minimum_balance of the model: one lamport whatever the length of
\* the data (the real minimum is positive for an empty account too).
rent_minimum_balance(len) == IF len >= 0 THEN 1 ELSE 0

assert_rent_exempt(L, key) ==
    IF L.lamports[key] < rent_minimum_balance(data_len(L.data[key]))
    THEN "AccountNotRentExempt" ELSE "Ok"

\* assert_initialized::<TokenAccount> (lines 61-70).
assert_initialized(L, key) ==
    LET account == TokenAccount_unpack_unchecked(L.data[key])
    IN  IF account.err # "Ok" THEN account.err
        ELSE IF ~account.is_initialized THEN "AccountNotInitialized"
        ELSE "Ok"

(***************************************************************************)
(* The token ledger service the handlers invoke (spl_token).  Each         *)
(* operation yields [err, L]: "Ok" and the new ledger, or an error and the *)
(* ledger it was given.  The service reads an account by its data; that    *)
(* it may write only the accounts it owns is the host's rule (cpi_verify). *)
(***************************************************************************)
IsTokenAccount(L, key) ==
    key \in StateKeys /\ L.data[key].kind = "token"

\* Account::unpack of the service on account `key`.
token_unpack_err(L, key) ==
    IF ~IsTokenAccount(L, key) THEN "InvalidAccountData"
    ELSE TokenAccount_unpack(L.data[key]).err

\* spl_token set_authority(account, AccountOwner, new_owner), signed by the
\* current owner.
spl_set_authority(L, account, new_owner, current_owner, signers) ==
    IF token_unpack_err(L, account) # "Ok"
    THEN [err |-> token_unpack_err(L, account), L |-> L]
    ELSE IF L.data[account].owner # current_owner THEN [err |-> "OwnerMismatch", L |-> L]
    ELSE IF current_owner \notin signers THEN [err |-> "MissingRequiredSignature", L |-> L]
    ELSE [err |-> "Ok",
          L |-> [L EXCEPT !.data[account].owner = new_owner]]

\* spl_token transfer(source, destination, amount) with owner `authority`.
spl_transfer(L, source, destination, authority, amount, signers) ==
    IF token_unpack_err(L, source) # "Ok"
    THEN [err |-> token_unpack_err(L, source), L |-> L]
    ELSE IF token_unpack_err(L, destination) # "Ok"
    THEN [err |-> token_unpack_err(L, destination), L |-> L]
    ELSE
    LET s == L.data[source]
        d == L.data[destination]
    IN  IF s.amount < amount THEN [err |-> "InsufficientFunds", L |-> L]
        ELSE IF s.is_native # d.is_native THEN [err |-> "MintMismatch", L |-> L]
        ELSE IF s.owner # authority THEN [err |-> "OwnerMismatch", L |-> L]
        ELSE IF authority \notin signers
        THEN [err |-> "MissingRequiredSignature", L |-> L]
        ELSE IF source = destination THEN [err |-> "Ok", L |-> L]
        ELSE IF d.amount + amount > U64_MAX THEN [err |-> "Overflow", L |-> L]
        ELSE [err |-> "Ok",
              L |-> [L EXCEPT !.data[source].amount = s.amount - amount,
                              !.data[destination].amount = d.amount + amount,
                              !.lamports[source] =
                                  IF s.is_native THEN @ - amount ELSE @,
                              !.lamports[destination] =
                                  IF s.is_native THEN @ + amount ELSE @]]

\* spl_token close_account(account, destination) with owner `authority`:
\* the account's lamports go to the destination and the account is purged.
spl_close_account(L, account, destination, authority, signers) ==
    IF account = destination THEN [err |-> "InvalidAccountData", L |-> L]
    ELSE IF token_unpack_err(L, account) # "Ok"
    THEN [err |-> token_unpack_err(L, account), L |-> L]
    ELSE IF destination \notin StateKeys
    THEN [err |-> "InvalidAccountData", L |-> L]
    ELSE
    LET s == L.data[account]
    IN  IF ~s.is_native /\ s.amount # 0 THEN [err |-> "NonNativeHasBalance", L |-> L]
        ELSE IF s.owner # authority THEN [err |-> "OwnerMismatch", L |-> L]
        ELSE IF authority \notin signers
        THEN [err |-> "MissingRequiredSignature", L |-> L]
        ELSE IF L.lamports[destination] + L.lamports[account] > U64_MAX
        THEN [err |-> "Overflow", L |-> L]
        ELSE [err |-> "Ok",
              L |-> [L EXCEPT !.lamports[destination] = @ + L.lamports[account],
                              !.lamports[account] = 0,
                              !.data[account] = NoData,
                              !.owner[account] = SYSTEM_ID]]

\* The host's verification of what an invoked program did: a program may
\* not reassign, debit or rewrite an account it does not own.  The
\* invocation fails and nothing it did is kept.
cpi_verify(program, L, r) ==
    IF r.err # "Ok" THEN r
    ELSE IF \E k \in StateKeys : L.owner[k] # program /\ r.L.owner[k] # L.owner[k]
    THEN [err |-> "ModifiedProgramId", L |-> L]
    ELSE IF \E k \in StateKeys : L.owner[k] # program /\ r.L.lamports[k] < L.lamports[k]
    THEN [err |-> "ExternalAccountLamportSpend", L |-> L]
    ELSE IF \E k \in StateKeys : L.owner[k] # program /\ r.L.data[k] # L.data[k]
    THEN [err |-> "ExternalAccountDataModified", L |-> L]
    ELSE r

\* spl_token::check_program_account, the first statement of every builder
\* of spl_token::instruction: the program the instruction is built for
\* must be spl_token.  lib.rs copies it as check_authority_account, so the
\* release of spl_token the program is built with has it.
check_program_account(spl_token_program_id) ==
    IF spl_token_program_id # SPL_TOKEN_ID THEN "IncorrectProgramId" ELSE "Ok"

\* An instruction for the token ledger, or the error of its builder.  It
\* carries the keys that sign it: those that signed the handler's own
\* invocation, and for invoke_signed the derived authority.
Instruction(token_program_id, tag, account, target, authority, amount, signers) ==
    [err |-> check_program_account(token_program_id),
     program_id |-> token_program_id, tag |-> tag, account |-> account,
     target |-> target, authority |-> authority, amount |-> amount,
     signers |-> signers]

\* spl_token::instruction::set_authority(token_program_id, account,
\* new_authority, AccountOwner, owner)
set_authority(token_program_id, account, new_authority, owner_key, signers) ==
    Instruction(token_program_id, "SetAuthority", account, new_authority, owner_key, 0, signers)

\* spl_token::instruction::transfer(token_program_id, source, destination,
\* authority, amount)
transfer(token_program_id, source, destination, authority, amount, signers) ==
    Instruction(token_program_id, "Transfer", source, destination, authority, amount, signers)

\* spl_token::instruction::close_account(token_program_id, account,
\* destination, owner)
close_account(token_program_id, account, destination, owner_key, signers) ==
    Instruction(token_program_id, "CloseAccount", account, destination, owner_key, 0, signers)

\* The token ledger processes instruction ins.
spl_token_process(L, ins) ==
    IF ins.tag = "SetAuthority"
    THEN spl_set_authority(L, ins.account, ins.target, ins.authority, ins.signers)
    ELSE IF ins.tag = "Transfer"
    THEN spl_transfer(L, ins.account, ins.target, ins.authority, ins.amount, ins.signers)
    ELSE spl_close_account(L, ins.account, ins.target, ins.authority, ins.signers)

\* Variant of invoke that sends the instruction to the token ledger
\* whatever its builder reported.
invoke_unchecked(L, ins) == spl_token_process(L, ins)

\* `spl_token::instruction::...(..)?` followed by invoke / invoke_signed:
\* the builder's error is the handler's, and an instruction that was built
\* is processed by the program it names, which the host verifies.
invoke(L, ins) ==
    IF ins.err # "Ok" THEN [err |-> ins.err, L |-> L]
    ELSE cpi_verify(ins.program_id, L, spl_token_process(L, ins))

(***************************************************************************)
(* processor.rs: the four handlers.  An outcome is [res, L, log, base]:    *)
(* the result code, the ledger as the handler left it (also when it        *)
(* failed), the effects it performed, in order, and for the host's         *)
(* verification of a successful handler the ledger without the handler's   *)
(* own writes.                                                             *)
(***************************************************************************)
\* The outcome of a handler that wrote accounts itself: base is the ledger
\* as the handler's invocations left it, without the handler's own writes.
Written(res, L, log, base) == [res |-> res, L |-> L, log |-> log, base |-> base]

\* The outcome of a handler that wrote no account itself.
Outcome(res, L, log) == Written(res, L, log, L)

\* Variant of checked_add that wraps around instead of reporting overflow.
checked_add_wrapping(x, y) == (x + y) % (U64_MAX + 1)

checked_add(x, y) == IF x + y > U64_MAX THEN -1 ELSE x + y
checked_sub(x, y) == IF x < y THEN -1 ELSE x - y


\* Variant of InitRecord that stores the payee and the fee accounts in each
\* other's field.
InitRecord_payee_fee_swapped(e, acc, amount, fee) ==
    [e EXCEPT !.is_initialized = TRUE,
              !.is_settled = FALSE,
              !.is_canceled = FALSE,
              !.fee = fee,
              !.payer = acc[1],
              !.payer_token = acc[5],
              !.payee_token = acc[7],
              !.vault_token = acc[2],
              !.fee_token = acc[6],
              !.authority = acc[3],
              !.amount = amount]

\* The record Init builds (lines 105-115).
InitRecord(e, acc, amount, fee) ==
    [e EXCEPT !.is_initialized = TRUE,
              !.is_settled = FALSE,
              !.is_canceled = FALSE,
              !.fee = fee,
              !.payer = acc[1],
              !.payer_token = acc[5],
              !.payee_token = acc[6],
              !.vault_token = acc[2],
              !.fee_token = acc[7],
              !.authority = acc[3],
              !.amount = amount]

\* The account checks of Init that depend on the kind of vault (lines
\* 83-92).
init_token_account_checks(L, vault_token, payer_info, payer_token_info, payee_token_info, fee_token_info) ==
    IF vault_token.is_native
    THEN assert_account_key(payer_token_info, payer_info)
    ELSE IF assert_owned_by(L, payer_token_info, SPL_TOKEN_ID) # "Ok"
            \/ assert_owned_by(L, payee_token_info, SPL_TOKEN_ID) # "Ok"
            \/ assert_owned_by(L, fee_token_info, SPL_TOKEN_ID) # "Ok"
         THEN "IllegalOwner"
    ELSE IF assert_initialized(L, payer_token_info) # "Ok"
         THEN assert_initialized(L, payer_token_info)
    ELSE IF assert_initialized(L, payee_token_info) # "Ok"
         THEN assert_initialized(L, payee_token_info)
    ELSE assert_initialized(L, fee_token_info)

\* Init, from the record write on (lines 105-141): the record is packed
\* into the escrow account, then the token program's key is checked and
\* the vault's ownership is handed to the derived authority.
init_write_and_handover(L, acc, signers, amount, fee, program_id, escrow) ==
    LET L1  == [L EXCEPT !.data[acc[4]] =
                    RegionData(pack_into_slice(InitRecord(escrow, acc, amount, fee)))]
        pda == find_program_authority(program_id)
    IN  IF Len(acc) < 9 THEN Outcome("NotEnoughAccountKeys", L1, <<"pack">>)
        ELSE IF assert_account_key(acc[9], SPL_TOKEN_ID) # "Ok"
        THEN Outcome("InvalidArgument", L1, <<"pack">>)
        ELSE
        LET handed_over(r) ==
                IF r.err # "Ok" THEN Outcome(r.err, L1, <<"pack">>)
                ELSE Written("Ok", r.L, <<"pack", "set_authority">>,
                             [r.L EXCEPT !.data[acc[4]] = L.data[acc[4]]])
        IN  handed_over(invoke(L1, set_authority(acc[9], acc[2], pda, acc[1], signers)))

\* Variant of init_amount_mismatch that refuses only a vault holding less
\* than the declared amount.
init_amount_mismatch_low(vault_amount, amount) == vault_amount < amount

\* Variant of init_fee_too_high with the operands interchanged.
init_fee_too_high_swapped(fee, amount) == amount > fee

\* Variant of init_fee_too_high that is off by one.
init_fee_too_high_off_by_one(fee, amount) == fee > amount + 1

\* Init's test of the declared amount against the vault (line 67).
init_amount_mismatch(vault_amount, amount) == vault_amount # amount

\* Init's fee test (line 102).
init_fee_too_high(fee, amount) == fee > amount

\* Processor::process_init_escrow.  Accounts: 1 payer, 2 vault token,
\* 3 authority, 4 escrow, 5 payer token, 6 payee token, 7 fee token,
\* 8 rent sysvar, 9 token program.
process_init_escrow(L, acc, signers, amount, fee, program_id) ==
    IF Len(acc) < 1 THEN Outcome("NotEnoughAccountKeys", L, << >>)
    ELSE IF assert_signer(acc[1], signers) # "Ok"
    THEN Outcome("MissingRequiredSignature", L, << >>)
    ELSE IF Len(acc) < 2 THEN Outcome("NotEnoughAccountKeys", L, << >>)
    ELSE IF assert_owned_by(L, acc[2], SPL_TOKEN_ID) # "Ok"
    THEN Outcome("IllegalOwner", L, << >>)
    ELSE
    LET vault_token == TokenAccount_unpack(L.data[acc[2]])
    IN  IF vault_token.err # "Ok" THEN Outcome(vault_token.err, L, << >>)
        ELSE IF init_amount_mismatch(vault_token.amount, amount)
        THEN Outcome("ExpectedAmountMismatch", L, << >>)
        ELSE IF Len(acc) < 3 THEN Outcome("NotEnoughAccountKeys", L, << >>)
        ELSE IF assert_signer(acc[3], signers) # "Ok"
        THEN Outcome("MissingRequiredSignature", L, << >>)
        ELSE IF Len(acc) < 7 THEN Outcome("NotEnoughAccountKeys", L, << >>)
        ELSE
        LET chk == init_token_account_checks(L, vault_token, acc[1], acc[5], acc[6], acc[7])
        IN  IF chk # "Ok" THEN Outcome(chk, L, << >>)
            ELSE IF Len(acc) < 8 THEN Outcome("NotEnoughAccountKeys", L, << >>)
            ELSE IF acc[8] # RENT_ID THEN Outcome("InvalidArgument", L, << >>)
            ELSE IF assert_rent_exempt(L, acc[4]) # "Ok"
            THEN Outcome("AccountNotRentExempt", L, << >>)
            ELSE
            LET escrow == Escrow_unpack_unchecked(L.data[acc[4]])
            IN  IF escrow.err # "Ok" THEN Outcome(escrow.err, L, << >>)
                ELSE IF is_initialized(escrow)
                THEN Outcome("AccountAlreadyInitialized", L, << >>)
                ELSE IF init_fee_too_high(fee, amount)
                THEN Outcome("FeeOverflow", L, << >>)
                ELSE init_write_and_handover(L, acc, signers, amount, fee,
                                             program_id, escrow)


\* Settle's native-currency payout (lines 211-249): the vault is closed
\* into the escrow account, then lamports are moved by checked arithmetic.
\* A failed checked operation leaves the earlier assignments in place.
settle_native(L, acc, fee, amount, vault) ==
    LET closed(c) ==
        IF c.err # "Ok" THEN Outcome(c.err, L, << >>)
        ELSE
        LET s1 == checked_sub(c.L.lamports[acc[5]], amount)
        IN  IF s1 < 0 THEN Outcome("AmountOverflow", c.L, <<"close_account">>)
            ELSE
            LET L1 == [c.L EXCEPT !.lamports[acc[5]] = s1]
                d1 == checked_add(L1.lamports[acc[2]], amount)
            IN  IF d1 < 0
                THEN Outcome("AmountOverflow", L1, <<"close_account", "debit_escrow">>)
                ELSE
                LET L2 == [L1 EXCEPT !.lamports[acc[2]] = d1]
                    log2 == <<"close_account", "debit_escrow", "credit_payee">>
                IN  IF ~(fee > 0) THEN Written("Ok", L2, log2, c.L)
                    ELSE
                    LET s2 == checked_sub(L2.lamports[acc[5]], fee)
                    IN  IF s2 < 0 THEN Outcome("AmountOverflow", L2, log2)
                        ELSE
                        LET L3 == [L2 EXCEPT !.lamports[acc[5]] = s2]
                            d2 == checked_add(L3.lamports[acc[3]], fee)
                        IN  IF d2 < 0
                            THEN Outcome("AmountOverflow", L3,
                                         log2 \o <<"debit_escrow">>)
                            ELSE Written("Ok",
                                         [L3 EXCEPT !.lamports[acc[3]] = d2],
                                         log2 \o <<"debit_escrow", "credit_fee">>,
                                         c.L)
    IN  closed(invoke(L, close_account(acc[7], acc[4], acc[5], vault, {vault})))

\* Settle's token payout (lines 251-309): transfer to the payee, transfer
\* of the fee when fee > 0, then the vault is closed to the fee payer.
settle_token(L, acc, fee, amount, vault) ==
    LET log2 == IF fee > 0 THEN <<"transfer_payee", "transfer_fee">>
                ELSE <<"transfer_payee">>
        payee_paid(t1) ==
            IF t1.err # "Ok" THEN Outcome(t1.err, L, << >>)
            ELSE
            LET fee_paid(t2) ==
                    IF t2.err # "Ok" THEN Outcome(t2.err, t1.L, <<"transfer_payee">>)
                    ELSE
                    LET closed(c) ==
                            IF c.err # "Ok" THEN Outcome(c.err, t2.L, log2)
                            ELSE Outcome("Ok", c.L, log2 \o <<"close_account">>)
                    IN  closed(invoke(t2.L, close_account(acc[7], acc[4], acc[6], vault, {vault})))
            IN  fee_paid(IF fee > 0
                         THEN invoke(t1.L, transfer(acc[7], acc[4], acc[3], vault, fee, {vault}))
                         ELSE [err |-> "Ok", L |-> t1.L])
    IN  payee_paid(invoke(L, transfer(acc[7], acc[4], acc[2], vault, amount, {vault})))

\* Variant of settle_mark that also clears the initialized flag.
settle_mark_clears_initialized(L, escrow_key, escrow) ==
    [L EXCEPT !.data[escrow_key] =
        RegionData(pack_into_slice([escrow EXCEPT !.is_settled = TRUE,
                                                  !.is_initialized = FALSE]))]

\* The last step of Settle (lines 312-315): settled is set and the record
\* packed.
settle_mark(L, escrow_key, escrow) ==
    [L EXCEPT !.data[escrow_key] =
        RegionData(pack_into_slice([escrow EXCEPT !.is_settled = TRUE]))]

\* Variant of settle_flag_checks that omits the test of the canceled flag.
settle_flag_checks_without_canceled(escrow) ==
    IF escrow.is_settled THEN "AccountAlreadySettled" ELSE "Ok"

\* Settle's tests of the record's flags (lines 167-172).
settle_flag_checks(escrow) ==
    IF escrow.is_canceled THEN "AccountAlreadyCanceled"
    ELSE IF escrow.is_settled THEN "AccountAlreadySettled"
    ELSE "Ok"

\* Variant of settle_payout that pays the payee the whole vault balance.
settle_payout_without_fee(vault_amount, fee) == vault_amount

\* The amount Settle pays the payee (lines 206-209): the vault's balance
\* less the recorded fee, -1 when the subtraction underflows.
settle_payout(vault_amount, fee) == checked_sub(vault_amount, fee)

\* Variant of settle_fee_too_high that omits the test.
settle_fee_too_high_never(fee, vault_amount) == FALSE

\* Settle's test of the recorded fee against the vault's balance (line 197).
settle_fee_too_high(fee, vault_amount) == fee > vault_amount

\* The payout of Settle by the kind of vault (line 211).
settle_pay(L, acc, escrow, vault_token, amount, vault) ==
    IF vault_token.is_native
    THEN settle_native(L, acc, escrow.fee, amount, vault)
    ELSE settle_token(L, acc, escrow.fee, amount, vault)

\* Variant of settle_pay_then_mark that writes the record first and pays
\* afterwards.
settle_mark_then_pay(L, acc, escrow, vault_token, amount, vault) ==
    LET paid(pay) == Written(pay.res, pay.L, <<"pack">> \o pay.log, pay.base)
    IN  paid(settle_pay(settle_mark(L, acc[5], escrow), acc, escrow,
                        vault_token, amount, vault))

\* Variant of settle_pay_then_mark that writes the settled record whether
\* the payout succeeded or not.
settle_pay_and_mark_anyway(L, acc, escrow, vault_token, amount, vault) ==
    LET paid(pay) ==
            Written(pay.res, settle_mark(pay.L, acc[5], escrow),
                    pay.log \o <<"pack">>, pay.base)
    IN  paid(settle_pay(L, acc, escrow, vault_token, amount, vault))

\* Settle from the payout on (lines 211-314): the payout, and when it
\* succeeded the write of the settled record.
settle_pay_then_mark(L, acc, escrow, vault_token, amount, vault) ==
    LET paid(pay) ==
            IF pay.res # "Ok" THEN pay
            ELSE Written("Ok", settle_mark(pay.L, acc[5], escrow),
                         pay.log \o <<"pack">>, pay.base)
    IN  paid(settle_pay(L, acc, escrow, vault_token, amount, vault))

\* Processor::process_settlement.  Accounts as the code reads them:
\* 1 authority, 2 payee token, 3 fee token, 4 vault token, 5 escrow,
\* 6 fee payer, 7 token program, 8 derived authority.
process_settlement(L, acc, signers, program_id) ==
    IF Len(acc) < 1 THEN Outcome("NotEnoughAccountKeys", L, << >>)
    ELSE IF assert_signer(acc[1], signers) # "Ok"
    THEN Outcome("MissingRequiredSignature", L, << >>)
    ELSE IF Len(acc) < 4 THEN Outcome("NotEnoughAccountKeys", L, << >>)
    ELSE IF assert_owned_by(L, acc[4], SPL_TOKEN_ID) # "Ok"
    THEN Outcome("IllegalOwner", L, << >>)
    ELSE
    LET vault_token == TokenAccount_unpack(L.data[acc[4]])
    IN  IF vault_token.err # "Ok" THEN Outcome(vault_token.err, L, << >>)
        ELSE IF Len(acc) < 5 THEN Outcome("NotEnoughAccountKeys", L, << >>)
        ELSE
        LET escrow == Escrow_unpack(L.data[acc[5]])
        IN  IF escrow.err # "Ok" THEN Outcome(escrow.err, L, << >>)
            ELSE IF settle_flag_checks(escrow) # "Ok"
            THEN Outcome(settle_flag_checks(escrow), L, << >>)
            ELSE IF assert_account_key(acc[1], escrow.authority) # "Ok"
                    \/ assert_account_key(acc[2], escrow.payee_token) # "Ok"
                    \/ assert_account_key(acc[3], escrow.fee_token) # "Ok"
                    \/ assert_account_key(acc[4], escrow.vault_token) # "Ok"
            THEN Outcome("InvalidArgument", L, << >>)
            ELSE IF Len(acc) < 7 THEN Outcome("NotEnoughAccountKeys", L, << >>)
            ELSE IF assert_account_key(acc[7], SPL_TOKEN_ID) # "Ok"
            THEN Outcome("InvalidArgument", L, << >>)
            ELSE IF Len(acc) < 8 THEN Outcome("NotEnoughAccountKeys", L, << >>)
            ELSE
            LET vault == find_program_authority(program_id)
            IN  IF assert_account_key(acc[8], vault) # "Ok"
                THEN Outcome("InvalidArgument", L, << >>)
                ELSE IF settle_fee_too_high(escrow.fee, vault_token.amount)
                THEN Outcome("FeeOverflow", L, << >>)
                ELSE
                LET amount == settle_payout(vault_token.amount, escrow.fee)
                IN  IF amount < 0 THEN Outcome("AmountOverflow", L, << >>)
                    ELSE settle_pay_then_mark(L, acc, escrow, vault_token, amount, vault)


\* Cancel's native-currency refund (lines 358-385).
cancel_native(L, acc, amount, vault_key) ==
    LET closed(c) ==
        IF c.err # "Ok" THEN Outcome(c.err, L, << >>)
        ELSE
        LET s1 == checked_sub(c.L.lamports[acc[2]], amount)
        IN  IF s1 < 0 THEN Outcome("AmountOverflow", c.L, <<"close_account">>)
            ELSE
            LET L1 == [c.L EXCEPT !.lamports[acc[2]] = s1]
                d1 == checked_add(L1.lamports[acc[3]], amount)
            IN  IF d1 < 0
                THEN Outcome("AmountOverflow", L1, <<"close_account", "debit_escrow">>)
                ELSE Written("Ok", [L1 EXCEPT !.lamports[acc[3]] = d1],
                             <<"close_account", "debit_escrow", "credit_payer">>,
                             c.L)
    IN  closed(invoke(L, close_account(acc[6], acc[5], acc[2], vault_key, {vault_key})))

\* Cancel's token refund (lines 386-425).
cancel_token(L, acc, amount, vault_key) ==
    LET payer_paid(t1) ==
            IF t1.err # "Ok" THEN Outcome(t1.err, L, << >>)
            ELSE
            LET closed(c) ==
                    IF c.err # "Ok" THEN Outcome(c.err, t1.L, <<"transfer_payer">>)
                    ELSE Outcome("Ok", c.L, <<"transfer_payer", "close_account">>)
            IN  closed(invoke(t1.L, close_account(acc[6], acc[5], acc[4], vault_key, {vault_key})))
    IN  payer_paid(invoke(L, transfer(acc[6], acc[5], acc[3], vault_key, amount, {vault_key})))

\* Variant of cancel_mark that writes the vault's balance into `amount`.
cancel_mark_amount_paid(L, escrow_key, escrow) ==
    [L EXCEPT !.data[escrow_key] =
        RegionData(pack_into_slice([escrow EXCEPT !.is_canceled = TRUE,
                                                  !.amount = @ + 1]))]

\* The last step of Cancel (lines 427-430).
cancel_mark(L, escrow_key, escrow) ==
    [L EXCEPT !.data[escrow_key] =
        RegionData(pack_into_slice([escrow EXCEPT !.is_canceled = TRUE]))]

\* Variant of cancel_amount that refunds the amount recorded at Init.
cancel_amount_recorded(vault_token, escrow) == escrow.amount

\* The amount Cancel refunds (line 352): the vault's balance.
cancel_amount(vault_token, escrow) == vault_token.amount

\* Variant of cancel_flag_checks that reports the two codes interchanged.
cancel_flag_checks_swapped(escrow) ==
    IF escrow.is_canceled THEN "AccountAlreadySettled"
    ELSE IF escrow.is_settled THEN "AccountAlreadyCanceled"
    ELSE "Ok"

\* Cancel's tests of the record's flags (lines 334-339).
cancel_flag_checks(escrow) ==
    IF escrow.is_canceled THEN "AccountAlreadyCanceled"
    ELSE IF escrow.is_settled THEN "AccountAlreadySettled"
    ELSE "Ok"

\* Processor::process_cancel.  Accounts: 1 authority, 2 escrow, 3 payer
\* token, 4 fee payer, 5 vault token, 6 token program, 7 derived authority.
process_cancel(L, acc, signers, program_id) ==
    IF Len(acc) < 1 THEN Outcome("NotEnoughAccountKeys", L, << >>)
    ELSE IF assert_signer(acc[1], signers) # "Ok"
    THEN Outcome("MissingRequiredSignature", L, << >>)
    ELSE IF Len(acc) < 5 THEN Outcome("NotEnoughAccountKeys", L, << >>)
    ELSE
    LET vault_token == TokenAccount_unpack(L.data[acc[5]])
    IN  IF vault_token.err # "Ok" THEN Outcome(vault_token.err, L, << >>)
        ELSE
        LET escrow == Escrow_unpack(L.data[acc[2]])
        IN  IF escrow.err # "Ok" THEN Outcome(escrow.err, L, << >>)
            ELSE IF cancel_flag_checks(escrow) # "Ok"
            THEN Outcome(cancel_flag_checks(escrow), L, << >>)
            ELSE IF assert_account_key(acc[3], escrow.payer_token) # "Ok"
                    \/ assert_account_key(acc[1], escrow.authority) # "Ok"
                    \/ assert_account_key(acc[5], escrow.vault_token) # "Ok"
            THEN Outcome("InvalidArgument", L, << >>)
            ELSE IF Len(acc) < 7 THEN Outcome("NotEnoughAccountKeys", L, << >>)
            ELSE
            LET vault_key == find_program_authority(program_id)
                amount == cancel_amount(vault_token, escrow)
                paid(pay) ==
                    IF pay.res # "Ok" THEN pay
                    ELSE Written("Ok", cancel_mark(pay.L, acc[2], escrow),
                                 pay.log \o <<"pack">>, pay.base)
            IN  IF assert_account_key(acc[7], vault_key) # "Ok"
                THEN Outcome("InvalidArgument", L, << >>)
                ELSE paid(IF vault_token.is_native
                          THEN cancel_native(L, acc, amount, vault_key)
                          ELSE cancel_token(L, acc, amount, vault_key))

\* The last two assignments of Close (lines 458-459): the escrow account's
\* lamports become 0.  The second assignment gives the handler's view of
\* the account an empty slice; the account's own 211 bytes are not written
\* and keep the record.
close_purge(L, escrow_key) == [L EXCEPT !.lamports[escrow_key] = 0]

\* Variant of close_allowed that omits the test.
close_allowed_always(escrow) == TRUE

\* Variant of close_allowed that tests the initialized flag instead.
close_allowed_initialized(escrow) == escrow.is_initialized

\* Close's test of the record's flags (line 448).
close_allowed(escrow) == escrow.is_settled \/ escrow.is_canceled

\* Processor::process_close.  Accounts: 1 authority, 2 escrow, 3 fee payer.
\* The escrow account's lamports are set to 0 (line 458) after the
\* recipient was credited, also when both are the same account.
process_close(L, acc, signers, program_id) ==
    IF Len(acc) < 1 THEN Outcome("NotEnoughAccountKeys", L, << >>)
    ELSE IF assert_signer(acc[1], signers) # "Ok"
    THEN Outcome("MissingRequiredSignature", L, << >>)
    ELSE IF Len(acc) < 2 THEN Outcome("NotEnoughAccountKeys", L, << >>)
    ELSE IF assert_owned_by(L, acc[2], program_id) # "Ok"
    THEN Outcome("IllegalOwner", L, << >>)
    ELSE
    LET escrow == Escrow_unpack(L.data[acc[2]])
    IN  IF escrow.err # "Ok" THEN Outcome(escrow.err, L, << >>)
        ELSE IF escrow.authority # acc[1] THEN Outcome("InvalidAccountData", L, << >>)
        ELSE IF ~close_allowed(escrow)
        THEN Outcome("AccountNotSettledOrCanceled", L, << >>)
        ELSE IF Len(acc) < 3 THEN Outcome("NotEnoughAccountKeys", L, << >>)
        ELSE
        LET sum == checked_add(L.lamports[acc[3]], L.lamports[acc[2]])
        IN  IF sum < 0 THEN Outcome("AmountOverflow", L, << >>)
            ELSE Written("Ok",
                         close_purge([L EXCEPT !.lamports[acc[3]] = sum], acc[2]),
                         <<"credit_fee_payer", "zero_escrow">>, L)


(***************************************************************************)
(* Processor::process and the host.                                        *)
(***************************************************************************)
\* An invocation: the decoded instruction, the account list in the order
\* given, and the keys whose is_signer flag is set.
Invocation(op, acc, signers, amount, fee) ==
    [op |-> op, acc |-> acc, signers |-> signers, amount |-> amount, fee |-> fee]

\* Processor::process: the dispatch on the decoded instruction.
process(L, ix) ==
    IF ix.op = "InitEscrow"
    THEN process_init_escrow(L, ix.acc, ix.signers, ix.amount, ix.fee, PROGRAM_ID)
    ELSE IF ix.op = "Settle"
    THEN process_settlement(L, ix.acc, ix.signers, PROGRAM_ID)
    ELSE IF ix.op = "Cancel"
    THEN process_cancel(L, ix.acc, ix.signers, PROGRAM_ID)
    ELSE process_close(L, ix.acc, ix.signers, PROGRAM_ID)

\* The lamports of all the accounts of ledger L (StateKeys, one by one).
LedgerLamports(L) ==
    L.lamports[P] + L.lamports[A] + L.lamports[M]
        + L.lamports[V] + L.lamports[T1] + L.lamports[T2] + L.lamports[U]
        + L.lamports[E] + L.lamports[F]

\* The host's verification of a handler that returned Ok: the program may
\* not reassign, debit or rewrite an account it does not own, and the
\* lamports it moved must add up.  What the programs it invoked did was
\* verified when they returned (cpi_verify), so the handler's own writes
\* are what differs between out.base and out.L.
host_verify(program, out) ==
    LET v == cpi_verify(program, out.base, [err |-> "Ok", L |-> out.L])
    IN  IF v.err # "Ok" THEN v.err
        ELSE IF LedgerLamports(out.L) # LedgerLamports(out.base)
        THEN "UnbalancedInstruction"
        ELSE "Ok"

\* The outcome of the instruction on ledger L whose handler returned `out`:
\* when the handler returned Ok the host verifies what it did.  The
\* instruction fails with the handler's error, or with the verification's,
\* and then nothing the handler did is kept.
verified(L, out) ==
    IF out.res # "Ok" \/ host_verify(PROGRAM_ID, out) = "Ok" THEN out
    ELSE [out EXCEPT !.res = host_verify(PROGRAM_ID, out), !.L = L]

\* One instruction as the host processes it: the handler's outcome, then
\* the verification of it.
process_instruction(L, ix) ==
    CHOOSE r \in { verified(L, out) : out \in {process(L, ix)} } : TRUE

\* The host keeps the ledger of an instruction that succeeded and discards
\* the ledger of one that failed.
Commit(L, out) == IF out.res = "Ok" THEN out.L ELSE L

(***************************************************************************)
(* Inputs of the model: the account lists and instruction data a caller    *)
(* may supply.                                                             *)
(***************************************************************************)
Amounts == 0 .. MaxAmount

\* The signer flags a handler reads are those of the accounts it passes to
\* assert_signer: any subset of them may have signed.
InitInputs ==
    { Invocation("InitEscrow", <<P, V, A, E, pt, yt, ft, RENT_ID, tp>>,
                 sg, a, f) :
        pt \in {P, T1}, yt \in {T1}, ft \in {T1, T2, M},
        tp \in {SPL_TOKEN_ID, FOREIGN_ID},
        sg \in SUBSET {P, A}, a \in Amounts, f \in Amounts }
    \cup
    \* the uninitialized token account in each of the three positions
    { Invocation("InitEscrow", <<P, V, A, E, tk[1], tk[2], tk[3], RENT_ID, SPL_TOKEN_ID>>,
                 {P, A}, a, 0) :
        tk \in {<<U, T1, T2>>, <<T1, U, T2>>, <<T1, T1, U>>}, a \in Amounts }
    \cup
    \* a vault that is not the token ledger's (a wallet), and one that is
    \* the token ledger's and not initialized
    { Invocation("InitEscrow", <<P, vt, A, E, T1, T1, T2, RENT_ID, SPL_TOKEN_ID>>,
                 sg, a, 0) :
        vt \in {M, U}, sg \in {{P}, {P, A}}, a \in Amounts }

SettleInputs ==
    { Invocation("Settle", <<au, yt, ft, vt, e, P, tp, pda>>, IF sg THEN {au} ELSE {}, 0, 0) :
        au \in {A, M}, sg \in BOOLEAN,
        yt \in {T1, T2}, ft \in {T1, T2, M}, vt \in {V, T1},
        e \in {E, F}, tp \in {SPL_TOKEN_ID, FOREIGN_ID}, pda \in {PDA, M} }
    \cup
    \* the uninitialized token account as the vault
    { Invocation("Settle", <<au, T1, T2, U, e, P, SPL_TOKEN_ID, PDA>>, {au}, 0, 0) :
        au \in {A, M}, e \in {E, F} }

\* Cancel takes the token program as it is given (no test of its key at
\* line 345) and hands it to the builders of spl_token::instruction.
CancelInputs ==
    { Invocation("Cancel", <<au, e, pt, P, vt, tp, pda>>,
                 IF sg THEN {au} ELSE {}, 0, 0) :
        au \in {A, M}, sg \in BOOLEAN,
        e \in {E, F}, pt \in {P, T1, T2}, vt \in {V, T1},
        tp \in {SPL_TOKEN_ID, FOREIGN_ID}, pda \in {PDA, M} }
    \cup
    \* the uninitialized token account as the vault
    { Invocation("Cancel", <<au, e, T1, P, U, SPL_TOKEN_ID, PDA>>, {au}, 0, 0) :
        au \in {A, M}, e \in {E, F} }

CloseInputs ==
    { Invocation("Close", <<au, e, fp>>, IF sg THEN {au} ELSE {}, 0, 0) :
        au \in {A, M}, sg \in BOOLEAN,
        e \in {E, F}, fp \in {P, M, E} }

(***************************************************************************)
(* State.                                                                  *)
(***************************************************************************)
VARIABLES
    lamports,   \* key -> lamports of the account
    owner,      \* key -> program owning the account
    data,       \* key -> data of the account
    custody,    \* vault key -> authority recorded by the Init that took it, or "none"
    terminations, \* successful Settle and Cancel invocations on record E so far
    last        \* the invocation being reported (its instruction and result,
                \* and its account list and signers when it succeeded), or Idle

vars == <<lamports, owner, data, custody, terminations, last>>

Ledger == [lamports |-> lamports, owner |-> owner, data |-> data]

Idle == [op |-> "None", res |-> "None", acc |-> << >>, signers |-> {}]

\* The record a program other than this one wrote into its own account F:
\* it names the vault V and a third party as authority, with a fee of its
\* choice.
ForgedRecord(fee) ==
    [err |-> "Ok", is_initialized |-> TRUE, is_settled |-> FALSE, is_canceled |-> FALSE,
     payer |-> M, payer_token |-> T2, payee_token |-> T2, vault_token |-> V,
     authority |-> M, fee_token |-> T2, amount |-> 0, fee |-> fee]

\* The fees the record in F may name.
ForgedFees == {0, 1}

Init ==
    /\ \E native \in BOOLEAN, forgedFee \in ForgedFees :
          data = [k \in StateKeys |->
                    IF k = V THEN TokenData(native, P, 0)
                    ELSE IF k \in {T1, T2} THEN TokenData(FALSE, "Y", 0)
                    ELSE IF k = U THEN UninitializedTokenData
                    ELSE IF k = E THEN RegionData(ZeroRegion)
                    ELSE IF k = F THEN RegionData(pack_into_slice(ForgedRecord(forgedFee)))
                    ELSE NoData]
    /\ lamports = [k \in StateKeys |-> IF k = M THEN U64_MAX ELSE 1]
    /\ owner = [k \in StateKeys |->
                    IF k \in TokenAccounts THEN SPL_TOKEN_ID
                    ELSE IF k = E THEN PROGRAM_ID
                    ELSE IF k = F THEN FOREIGN_ID
                    ELSE SYSTEM_ID]
    /\ custody = [k \in TokenAccounts |-> "none"]
    /\ terminations = 0
    /\ last = Idle

\* The escrow account of an invocation, at the position its handler reads.
EscrowOf(ix) ==
    IF ix.op = "InitEscrow" THEN ix.acc[4]
    ELSE IF ix.op = "Settle" THEN ix.acc[5]
    ELSE ix.acc[2]

\* What the host holds after invocation ix, whose handler returned `out`:
\* the committed ledger, the custody and termination notes and the
\* reported result.
Report(ix, out) ==
    [L |-> Commit(Ledger, out),
     custody |-> IF ix.op = "InitEscrow" /\ out.res = "Ok"
                 THEN [custody EXCEPT ![ix.acc[2]] = ix.acc[3]]
                 ELSE custody,
     terminations |-> IF ix.op \in {"Settle", "Cancel"} /\ out.res = "Ok"
                         /\ EscrowOf(ix) = E /\ terminations < MaxCount
                      THEN terminations + 1
                      ELSE terminations,
     last |-> [op |-> ix.op, res |-> out.res,
               acc |-> IF out.res = "Ok" THEN ix.acc ELSE << >>,
               signers |-> IF out.res = "Ok" THEN ix.signers ELSE {}]]

After(ix) == Report(ix, process_instruction(Ledger, ix))

\* The host's state becomes r.
Becomes(r) ==
    /\ lamports' = r.L.lamports
    /\ owner' = r.L.owner
    /\ data' = r.L.data
    /\ custody' = r.custody
    /\ terminations' = r.terminations
    /\ last' = r.last

InitEscrow ==
    /\ last = Idle
    /\ \E ix \in InitInputs : Becomes(After(ix))

Settle ==
    /\ last = Idle
    /\ \E ix \in SettleInputs : Becomes(After(ix))

Cancel ==
    /\ last = Idle
    /\ \E ix \in CancelInputs : Becomes(After(ix))

Close ==
    /\ last = Idle
    /\ \E ix \in CloseInputs : Becomes(After(ix))

\* The result is reported and the host takes the next instruction.
Return ==
    /\ last # Idle
    /\ last' = Idle
    /\ UNCHANGED <<lamports, owner, data, custody, terminations>>

\* Anyone may send tokens to a token account: a third party adds one token
\* to the vault (for a native vault, one lamport and a sync).
Deposit ==
    /\ last = Idle
    /\ data[V].kind = "token"
    /\ data[V].amount < MaxAmount
    /\ data' = [data EXCEPT ![V].amount = @ + 1]
    /\ lamports' = [lamports EXCEPT ![V] = IF data[V].is_native THEN @ + 1 ELSE @]
    /\ UNCHANGED <<owner, custody, terminations, last>>

\* The vault's address is an ordinary keypair address: once the token
\* ledger has closed the vault that was in custody, whoever holds the key
\* may create a token account there again; here its token owner is the
\* derived authority, the one owner for which Settle and Cancel can act.
Reopen ==
    /\ last = Idle
    /\ data[V] = NoData
    /\ custody[V] # "none"
    /\ \E native \in BOOLEAN :
          data' = [data EXCEPT ![V] = TokenData(native, PDA, 0)]
    /\ owner' = [owner EXCEPT ![V] = SPL_TOKEN_ID]
    /\ lamports' = [lamports EXCEPT ![V] = 1]
    /\ custody' = [custody EXCEPT ![V] = "none"]
    /\ UNCHANGED <<terminations, last>>

\* The accounts the host removes when a transaction ends: those left
\* without lamports.
Emptied(L) ==
    { k \in StateKeys :
        L.lamports[k] = 0 /\ (L.data[k] # NoData \/ L.owner[k] # SYSTEM_ID) }

\* The end of a transaction: the host removes every account left without
\* lamports; its data is gone and its address is the system program's
\* again.  A transaction is any run of instructions, so the removal may
\* come after any instruction that succeeded, or after further ones.
EndTransaction ==
    /\ last = Idle
    /\ Emptied(Ledger) # {}
    /\ data' = [k \in StateKeys |-> IF k \in Emptied(Ledger) THEN NoData ELSE data[k]]
    /\ owner' = [k \in StateKeys |->
                    IF k \in Emptied(Ledger) THEN SYSTEM_ID ELSE owner[k]]
    /\ UNCHANGED <<lamports, custody, terminations, last>>

Next ==
    InitEscrow \/ Settle \/ Cancel \/ Close \/ Return \/ Deposit \/ Reopen
        \/ EndTransaction

Spec == Init /\ [][Next]_vars


(***************************************************************************)
(* Vocabulary of the properties.                                           *)
(***************************************************************************)
\* The value a token account holds: its token amount (for a native account
\* the lamports above its rent reserve), nothing once it is purged.
VaultValue(L, v) == IF L.data[v].kind = "token" THEN L.data[v].amount ELSE 0

\* The vault is in custody: a successful Init handed it to the derived
\* authority, and it still exists.
InCustody(v) == custody[v] # "none" /\ data[v].kind = "token"

\* The record held by account k, decoded without the initialized test.
Rec(L, k) == Escrow_unpack_unchecked(L.data[k])

\* Account k holds an initialized record.
IsRecord(L, k) == Rec(L, k).err = "Ok" /\ Rec(L, k).is_initialized

\* The three flags of the record in account k (empty when k holds none).
Flags(L, k) ==
    IF Rec(L, k).err = "Ok"
    THEN <<Rec(L, k).is_initialized, Rec(L, k).is_settled, Rec(L, k).is_canceled>>
    ELSE << >>

\* The record in account k is initialized and neither settled nor canceled.
IsOpen(L, k) == Flags(L, k) = <<TRUE, FALSE, FALSE>>

\* The record in account k is settled or canceled.
IsTerminal(L, k) ==
    IsRecord(L, k) /\ (Rec(L, k).is_settled \/ Rec(L, k).is_canceled)

\* The balance of account k in the currency of a payout: lamports when the
\* vault is native, the token amount otherwise.
Bal(L, k, native) ==
    IF native THEN L.lamports[k]
    ELSE IF L.data[k].kind = "token" THEN L.data[k].amount ELSE 0

\* What account k gained between ledgers L1 and L2.
Gain(L1, L2, k, native) == Bal(L2, k, native) - Bal(L1, k, native)

(***************************************************************************)
(* C1.  Value leaves a vault that a successful Init placed in custody only *)
(* during a Settle or Cancel invocation in which the authority recorded by *)
(* that Init is a signer, whatever account lists callers supply (escrow    *)
(* accounts not populated by Init included).                               *)
(***************************************************************************)
C1_ValueLeavesOnlyByRecordedAuthority ==
    [][ (InCustody(V) /\ VaultValue(Ledger', V) < VaultValue(Ledger, V))
        => (last'.op \in {"Settle", "Cancel"} /\ custody[V] \in last'.signers) ]_vars

\* A Settle signed by A, the authority recorded for the vault V, has paid
\* the vault out to T1 and closed it.
C1_Witness ==
    /\ last.op = "Settle" /\ last.res = "Ok" /\ last.acc[4] = V
    /\ custody[V] = A /\ A \in last.signers
    /\ data[V] = NoData /\ Bal(Ledger, T1, FALSE) > 0

(***************************************************************************)
(* C2.  For the record created by Init: settled and canceled are never     *)
(* both true; a flag that is true stays true for as long as the record     *)
(* exists; and at most one Settle or Cancel ever succeeds on it.           *)
(***************************************************************************)
C2_FlagsNeverBoth ==
    /\ IsRecord(Ledger, E) => ~(Rec(Ledger, E).is_settled /\ Rec(Ledger, E).is_canceled)
    /\ terminations <= 1

C2_FlagsStay ==
    (data'[E] # data[E] /\ IsRecord(Ledger, E) /\ IsRecord(Ledger', E))
        => /\ Rec(Ledger, E).is_settled => Rec(Ledger', E).is_settled
           /\ Rec(Ledger, E).is_canceled => Rec(Ledger', E).is_canceled

\* C2: the flags are exclusive and final, and Settle/Cancel is single-shot.
C2_ExclusiveSingleShot == []C2_FlagsNeverBoth /\ [][C2_FlagsStay]_vars

\* A later Cancel was refused on the record a Settle had settled.
C2_Witness ==
    /\ terminations = 1
    /\ Flags(Ledger, E) = <<TRUE, TRUE, FALSE>>
    /\ last.op = "Cancel" /\ last.res = "AccountAlreadySettled"

(***************************************************************************)
(* C3.  What a successful Settle pays.                                     *)
(***************************************************************************)
\* The step is a successful Settle on the record in E.
SettleStep == last'.op = "Settle" /\ last'.res = "Ok" /\ last'.acc[5] = E

\* The vault of the step is native.
SettleNative == data[last'.acc[4]].is_native

\* C3 as stated: a successful Settle on a record with recorded amount and
\* fee raises the payee account's balance by exactly amount - fee and, when
\* fee > 0, the fee account's balance by exactly fee, whatever happened to
\* the vault between Init and Settle.
C3_PaysRecordedAmount ==
    [][ SettleStep =>
            /\ Gain(Ledger, Ledger', last'.acc[2], SettleNative)
                    = Rec(Ledger, E).amount - Rec(Ledger, E).fee
            /\ Rec(Ledger, E).fee > 0
                    => Gain(Ledger, Ledger', last'.acc[3], SettleNative)
                            = Rec(Ledger, E).fee ]_vars

\* What Settle owes account k: the vault's balance less the fee if k is the
\* payee account, plus the fee if k is the fee account.
SettleCredit(k, payee, feeAccount, vault_amount, fee) ==
    (IF k = payee THEN vault_amount - fee ELSE 0)
        + (IF k = feeAccount THEN fee ELSE 0)

\* C3 amended: a successful Settle raises the payee account's balance by
\* exactly the vault's balance at that moment less the recorded fee, and
\* the fee account's balance by exactly the fee; an account that is both
\* receives both.  It is amount - fee only while the vault still holds the
\* recorded amount.
C3_PaysVaultBalance ==
    [][ SettleStep =>
            \A k \in {last'.acc[2], last'.acc[3]} :
                Gain(Ledger, Ledger', k, SettleNative)
                    = SettleCredit(k, last'.acc[2], last'.acc[3],
                                   data[last'.acc[4]].amount, Rec(Ledger, E).fee) ]_vars

\* A Settle succeeded on a record of amount 1 and fee 1 whose vault had
\* received one more token since Init: the payee T1 holds 1, not 0.
C3_Witness ==
    /\ last.op = "Settle" /\ last.res = "Ok" /\ last.acc[5] = E
    /\ last.acc[2] = T1 /\ last.acc[3] = T2
    /\ Rec(Ledger, E).amount = 1 /\ Rec(Ledger, E).fee = 1
    /\ Bal(Ledger, T1, FALSE) = 1 /\ Bal(Ledger, T2, FALSE) = 1

(***************************************************************************)
(* C4.  What a successful Cancel moves.                                    *)
(***************************************************************************)
\* The step is a successful Cancel on the record in E.
CancelStep == last'.op = "Cancel" /\ last'.res = "Ok" /\ last'.acc[2] = E

\* The vault of the step is native.
CancelNative == data[last'.acc[5]].is_native

\* The vault's whole balance goes to the recorded payer token account.
CancelRefundsAll ==
    /\ VaultValue(Ledger', last'.acc[5]) = 0
    /\ Gain(Ledger, Ledger', Rec(Ledger, E).payer_token, CancelNative)
            = data[last'.acc[5]].amount

\* C4: every successful Cancel moves the vault's entire current
\* balance to the payer token account recorded at Init, deducts no fee, and
\* leaves the balance of the recorded fee account unchanged.
C4_RefundsAllFeeAccountUntouched ==
    [][ CancelStep =>
            /\ CancelRefundsAll
            /\ Gain(Ledger, Ledger', Rec(Ledger, E).fee_token, CancelNative) = 0 ]_vars

\* C4 amended: every successful Cancel moves the vault's entire current
\* balance to the recorded payer token account and deducts no fee; the
\* recorded fee account's balance is unchanged unless it is the payer token
\* account itself, which Init allows.
C4_RefundsAllFeeAccountUntouchedIfDistinct ==
    [][ CancelStep =>
            /\ CancelRefundsAll
            /\ Rec(Ledger, E).fee_token # Rec(Ledger, E).payer_token
                    => Gain(Ledger, Ledger', Rec(Ledger, E).fee_token, CancelNative) = 0 ]_vars

\* A Cancel succeeded on a record of non-zero fee and refunded two tokens
\* to the payer token account T1, the fee account T2 holding nothing.
C4_Witness ==
    /\ last.op = "Cancel" /\ last.res = "Ok" /\ last.acc[2] = E
    /\ Rec(Ledger, E).payer_token = T1 /\ Rec(Ledger, E).fee_token = T2
    /\ Rec(Ledger, E).fee > 0
    /\ Bal(Ledger, T1, FALSE) = 2 /\ Bal(Ledger, T2, FALSE) = 0

(***************************************************************************)
(* C5.  Settle or Cancel on a record already settled or canceled.          *)
(***************************************************************************)
\* The Settle and Cancel invocations on the record in E.
AttemptsOnE == { ix \in SettleInputs \cup CancelInputs : EscrowOf(ix) = E }

\* The vault account of a Settle or Cancel invocation.
VaultOf(ix) == IF ix.op = "Settle" THEN ix.acc[4] ELSE ix.acc[5]

\* The code for the flag the record in E carries.
AlreadyCode(L) ==
    IF Rec(L, E).is_canceled THEN "AccountAlreadyCanceled" ELSE "AccountAlreadySettled"

\* The invocation passes the tests made before the flags are looked at:
\* the authority account signed and the vault account is an initialized
\* token account (for Settle, one the token ledger owns).
ReachesFlagTest(L, ix) ==
    /\ ix.acc[1] \in ix.signers
    /\ TokenAccount_unpack(L.data[VaultOf(ix)]).err = "Ok"
    /\ ix.op = "Settle" => L.owner[VaultOf(ix)] = SPL_TOKEN_ID

RefusedWithFlagCode(L, out) ==
    out.res = AlreadyCode(L) /\ Flags(out.L, E) = Flags(L, E)

RefusedFlagsKept(L, ix, out) ==
    /\ out.res # "Ok"
    /\ Flags(out.L, E) = Flags(L, E)
    /\ ReachesFlagTest(L, ix) => out.res = AlreadyCode(L)

\* C5 as stated: a Settle or Cancel invoked on a record on which a Settle
\* or Cancel has already succeeded fails with AccountAlreadySettled (record
\* settled) or AccountAlreadyCanceled (record canceled), and the three
\* flags are the same after the failing call as before it.
C5_SecondCallGetsFlagCode ==
    (last = Idle /\ IsTerminal(Ledger, E))
        => \A ix \in AttemptsOnE : RefusedWithFlagCode(Ledger, process_instruction(Ledger, ix))

\* C5 amended: such a call always fails and leaves the three flags as they
\* were; it fails with AccountAlreadySettled / AccountAlreadyCanceled when
\* the authority account has signed and the vault account passed is a live
\* initialized token account.  Where the first Settle or Cancel closed
\* the vault, a repetition with the same accounts fails before the flags
\* are read.
C5_SecondCallRefused ==
    (last = Idle /\ IsTerminal(Ledger, E))
        => \A ix \in AttemptsOnE : RefusedFlagsKept(Ledger, ix, process_instruction(Ledger, ix))

\* After a Cancel, a Settle on the same record was refused with
\* AccountAlreadyCanceled.
C5_Witness ==
    /\ Flags(Ledger, E) = <<TRUE, FALSE, TRUE>>
    /\ last.op = "Settle" /\ last.res = "AccountAlreadyCanceled"

(***************************************************************************)
(* C6.  When Close succeeds, and what a failed Close leaves alone.         *)
(***************************************************************************)
CloseJustified(L, ix, out) ==
    /\ out.res = "Ok"
          => /\ IsTerminal(L, ix.acc[2])
             /\ Rec(L, ix.acc[2]).authority = ix.acc[1]
             /\ ix.acc[1] \in ix.signers
    /\ out.res # "Ok"
          => /\ out.L.data[ix.acc[2]] = L.data[ix.acc[2]]
             /\ out.L.lamports[ix.acc[2]] = L.lamports[ix.acc[2]]

\* C6: Close succeeds only if the record is settled or canceled and the
\* signing account is the record's recorded authority; in every other case
\* it fails, and the record's data and the escrow account's balance are
\* unchanged.
C6_CloseOnlyTerminalByAuthority ==
    last = Idle => \A ix \in CloseInputs : CloseJustified(Ledger, ix, process_instruction(Ledger, ix))

\* A Close signed by the recorded authority A succeeded on the terminal
\* record in E: the escrow account has no lamports left.
C6_Witness ==
    /\ last.op = "Close" /\ last.res = "Ok" /\ last.acc[2] = E
    /\ last.acc[1] = A /\ A \in last.signers
    /\ IsTerminal(Ledger, E) /\ Rec(Ledger, E).authority = A
    /\ lamports[E] = 0

(***************************************************************************)
(* C7.  Close on a record that is still Open.                              *)
(***************************************************************************)
\* The Close invocations on the record in E.
ClosesOfE == { ix \in CloseInputs : ix.acc[2] = E }

CloseRefusedNotTerminal(L, out) ==
    out.res = "AccountNotSettledOrCanceled" /\ IsOpen(out.L, E)

CloseRefusedStaysOpen(L, ix, out) ==
    /\ out.res # "Ok"
    /\ out.L.data[E] = L.data[E]
    /\ (ix.acc[1] \in ix.signers /\ ix.acc[1] = Rec(L, E).authority)
          => out.res = "AccountNotSettledOrCanceled"

\* C7 as stated: for every amount and fee with fee <= amount, a Close
\* invoked after a successful Init with no Settle or Cancel in between
\* fails with AccountNotSettledOrCanceled and the record stays Open.
C7_CloseOfOpenGetsNotTerminalCode ==
    (last = Idle /\ IsOpen(Ledger, E))
        => \A ix \in ClosesOfE : CloseRefusedNotTerminal(Ledger, process_instruction(Ledger, ix))

\* C7 amended: such a Close always fails and the record stays Open; it
\* fails with AccountNotSettledOrCanceled when the account passed as
\* authority has signed and is the record's recorded authority.
C7_CloseOfOpenRefused ==
    (last = Idle /\ IsOpen(Ledger, E))
        => \A ix \in ClosesOfE : CloseRefusedStaysOpen(Ledger, ix, process_instruction(Ledger, ix))

\* A Close of the Open record was refused with AccountNotSettledOrCanceled.
C7_Witness ==
    IsOpen(Ledger, E) /\ last.op = "Close" /\ last.res = "AccountNotSettledOrCanceled"

(***************************************************************************)
(* C8.  Init with fee > amount.                                            *)
(***************************************************************************)
\* The Init invocations that declare a fee above the amount.
InitsFeeAboveAmount == { ix \in InitInputs : ix.fee > ix.amount }

\* The invocation passes every test Init makes before its fee test: with a
\* fee of zero it goes on to write the record.
ReachesFeeTest(L, ix) == process_instruction(L, [ix EXCEPT !.fee = 0]).log # << >>

InitRefusedFeeOverflow(L, ix, out) ==
    out.res = "FeeOverflow" /\ out.L.data[EscrowOf(ix)] = L.data[EscrowOf(ix)]

InitRefusedRecordKept(L, ix, out) ==
    /\ out.res # "Ok"
    /\ out.L.data[EscrowOf(ix)] = L.data[EscrowOf(ix)]
    /\ ReachesFeeTest(L, ix) => out.res = "FeeOverflow"

\* C8 as stated: every Init invoked with fee > amount fails with
\* FeeOverflow and leaves the escrow record's bytes unchanged.
C8_FeeAboveAmountGetsFeeOverflow ==
    last = Idle
        => \A ix \in InitsFeeAboveAmount : InitRefusedFeeOverflow(Ledger, ix, process_instruction(Ledger, ix))

\* C8 amended: every Init invoked with fee > amount fails and leaves the
\* escrow record's bytes unchanged; it fails with FeeOverflow when the
\* invocation passes the tests that come before the fee test (signatures,
\* vault balance equal to amount, token accounts, rent, record not yet
\* initialized).
C8_FeeAboveAmountRefused ==
    last = Idle
        => \A ix \in InitsFeeAboveAmount : InitRefusedRecordKept(Ledger, ix, process_instruction(Ledger, ix))

\* An Init was refused with FeeOverflow and the record is still blank.
C8_Witness ==
    /\ last.op = "InitEscrow" /\ last.res = "FeeOverflow"
    /\ data[E] = RegionData(ZeroRegion)

(***************************************************************************)
(* C9.  Init with a declared amount that is not the vault's balance.       *)
(***************************************************************************)
\* The Init invocations whose declared amount differs from the balance of
\* the vault token account.
InitsAmountMismatch(L) ==
    { ix \in InitInputs : ix.amount # VaultValue(L, ix.acc[2]) }

\* The invocation passes the tests Init makes before it compares the
\* amounts: the payer has signed, and the vault is an account of the token
\* ledger that holds an initialized token account.
ReachesAmountTest(L, ix) ==
    /\ ix.acc[1] \in ix.signers
    /\ L.owner[ix.acc[2]] = SPL_TOKEN_ID
    /\ TokenAccount_unpack(L.data[ix.acc[2]]).err = "Ok"

InitRefusedMismatch(L, ix, out) ==
    out.res = "ExpectedAmountMismatch" /\ out.L.data[EscrowOf(ix)] = L.data[EscrowOf(ix)]

InitRefusedNothingWritten(L, ix, out) ==
    /\ out.res # "Ok"
    /\ out.L.data[EscrowOf(ix)] = L.data[EscrowOf(ix)]
    /\ ReachesAmountTest(L, ix) => out.res = "ExpectedAmountMismatch"

\* C9 as stated: every Init invoked with a declared amount different from
\* the vault token account's current balance fails with
\* ExpectedAmountMismatch, and no record is written.
C9_AmountMismatchGetsMismatchCode ==
    last = Idle
        => \A ix \in InitsAmountMismatch(Ledger) :
                InitRefusedMismatch(Ledger, ix, process_instruction(Ledger, ix))

\* C9 amended: every such Init fails and no record is written; it fails
\* with ExpectedAmountMismatch when the payer account has signed and the
\* vault is an initialized token account owned by the token ledger.
C9_AmountMismatchRefused ==
    last = Idle
        => \A ix \in InitsAmountMismatch(Ledger) :
                InitRefusedNothingWritten(Ledger, ix, process_instruction(Ledger, ix))

\* An Init was refused with ExpectedAmountMismatch while the vault held a
\* token and the record is still blank.
C9_Witness ==
    /\ last.op = "InitEscrow" /\ last.res = "ExpectedAmountMismatch"
    /\ VaultValue(Ledger, V) > 0
    /\ data[E] = RegionData(ZeroRegion)

(***************************************************************************)
(* C10.  Every initialized escrow record satisfies fee <= amount.          *)
(***************************************************************************)
\* C10: in every reachable state, every initialized escrow record held by
\* an account of this program satisfies fee <= amount.
C10_FeeWithinAmount ==
    \A k \in StateKeys :
        (owner[k] = PROGRAM_ID /\ IsRecord(Ledger, k))
            => Rec(Ledger, k).fee <= Rec(Ledger, k).amount

\* A record with amount 2 and fee 2 exists.
C10_Witness ==
    IsRecord(Ledger, E) /\ Rec(Ledger, E).amount = 2 /\ Rec(Ledger, E).fee = 2

(***************************************************************************)
(* C11.  The initialized flag is never reset.                              *)
(***************************************************************************)
\* Every invocation of the model that names E as its escrow account.
InvocationsOnE ==
    { ix \in InitInputs \cup SettleInputs \cup CancelInputs \cup CloseInputs :
        EscrowOf(ix) = E }

\* The handler leaves the record in E initialized; only a Close that
\* succeeds takes the account's last lamports.
KeepsInitialized(ix, out) ==
    /\ IsRecord(out.L, E)
    /\ (lamports[E] > 0 /\ out.L.lamports[E] = 0) => (ix.op = "Close" /\ out.res = "Ok")

\* No handler, successful or failed, leaves the initialized record in E
\* without its initialized flag, and none but a successful Close takes the
\* account's last lamports.
C11_HandlersKeepInitialized ==
    (last = Idle /\ IsRecord(Ledger, E))
        => \A ix \in InvocationsOnE : KeepsInitialized(ix, process_instruction(Ledger, ix))

\* A step after which E no longer holds an initialized record is the
\* removal of the account that a successful Close of E left without
\* lamports: only a successful Close of E takes the account's last
\* lamports, and only an account without lamports loses its record.
C11_OnlyCloseEnds ==
    /\ (lamports[E] > 0 /\ lamports'[E] = 0)
            => (last'.op = "Close" /\ last'.res = "Ok" /\ last'.acc[2] = E)
    /\ (data'[E] # data[E] /\ IsRecord(Ledger, E) /\ ~IsRecord(Ledger', E))
            => (lamports[E] = 0 /\ IsTerminal(Ledger, E) /\ data'[E] = NoData)

\* C11: once Init has set a record's initialized flag, no Settle, Cancel,
\* Init or failed invocation resets it; only a successful Close, which
\* destroys the record, ends the initialized state.
C11_InitializedNeverReset == []C11_HandlersKeepInitialized /\ [][C11_OnlyCloseEnds]_vars

\* A Settle succeeded and the record it settled is still initialized.
C11_Witness ==
    /\ last.op = "Settle" /\ last.res = "Ok" /\ last.acc[5] = E
    /\ Flags(Ledger, E) = <<TRUE, TRUE, FALSE>>

(***************************************************************************)
(* C12.  Close is terminal.                                                *)
(***************************************************************************)
\* The record in E has been closed: a successful Close has taken the
\* account's lamports (nothing else takes the last of them).
Closed(L) == IsRecord(L, E) /\ L.lamports[E] = 0

\* C12: after a successful Close of a record, every later Init, Settle,
\* Cancel or Close invocation naming that escrow account fails, so Close
\* succeeds at most once per record.
C12_CloseTerminal ==
    (last = Idle /\ Closed(Ledger))
        => \A ix \in InvocationsOnE : process_instruction(Ledger, ix).res # "Ok"

(***************************************************************************)
(* C13.  When a handler writes the record.                                 *)
(***************************************************************************)
\* The invocations of the handlers that write a record.
WritingInputs == InitInputs \cup SettleInputs \cup CancelInputs

\* How many times the handler packed the record.
PackCount(log) == Cardinality({ i \in 1 .. Len(log) : log[i] = "pack" })

\* The record is written at most once, as the last effect of the handler,
\* and the handler then succeeds.
WriteIsLast(out) ==
    /\ PackCount(out.log) <= 1
    /\ PackCount(out.log) = 1
          => (out.log[Len(out.log)] = "pack" /\ out.res = "Ok")

\* Init writes the record at most once, before any other effect; it
\* succeeds exactly when the hand-over of the vault follows the write, and
\* a failure after the write has no other effect.
InitWritesFirst(out) ==
    /\ PackCount(out.log) <= 1
    /\ out.log # << >> => out.log[1] = "pack"
    /\ out.res = "Ok" <=> out.log = <<"pack", "set_authority">>
    /\ (out.res # "Ok" /\ out.log # << >>) => out.log = <<"pack">>

WriteOrder(ix, out) ==
    IF ix.op = "InitEscrow" THEN InitWritesFirst(out) ELSE WriteIsLast(out)

\* C13 as stated: in each of Init, Settle and Cancel the record is written
\* at most once per invocation, only after every validation check has
\* passed and every token-ledger instruction has been issued, and no later
\* step of the invocation can fail after the write.
C13_WriteLastInEveryHandler ==
    last = Idle => \A ix \in WritingInputs : WriteIsLast(process(Ledger, ix))

\* The host accepts what the handler did whenever the handler succeeded.
HostAccepts(L, ix) == process_instruction(L, ix).res = process(L, ix).res

\* C13 amended: Settle and Cancel write the record at most once, as their
\* last step, after every check and every token-ledger instruction.  Init
\* writes it at most once but earlier: before its test of the token
\* program's identity and before the instruction that hands the vault over,
\* so an Init can fail after its write.  On an escrow account the program
\* owns nothing fails once the handler has succeeded.
C13_WriteLastExceptInit ==
    last = Idle =>
        \A ix \in WritingInputs :
            /\ WriteOrder(ix, process(Ledger, ix))
            /\ Ledger.owner[EscrowOf(ix)] = PROGRAM_ID => HostAccepts(Ledger, ix)

\* An Init failed at its test of the token program, after it had packed the
\* record; the account still holds the blank region.
C13_Witness ==
    /\ last.op = "InitEscrow" /\ last.res = "InvalidArgument"
    /\ data[E] = RegionData(ZeroRegion)
    /\ VaultValue(Ledger, V) = 1 /\ ~data[V].is_native

(***************************************************************************)
(* C14.  What a successful Init leaves behind.                             *)
(***************************************************************************)
\* The record in account k of ledger L is Open and holds the accounts of
\* the list `acc` of an Init in their fields.
RecordNamesAccounts(L, k, acc) ==
    /\ IsOpen(L, k)
    /\ Rec(L, k).payer = acc[1]
    /\ Rec(L, k).payer_token = acc[5]
    /\ Rec(L, k).payee_token = acc[6]
    /\ Rec(L, k).vault_token = acc[2]
    /\ Rec(L, k).fee_token = acc[7]
    /\ Rec(L, k).authority = acc[3]

\* The vault named by the list `acc` of an Init is a token account owned by
\* the derived address.
VaultHandedOver(L, acc) ==
    L.data[acc[2]].kind = "token" /\ L.data[acc[2]].owner = PDA

InitStores(ix, out) ==
    out.res = "Ok" =>
        /\ RecordNamesAccounts(out.L, ix.acc[4], ix.acc)
        /\ Rec(out.L, ix.acc[4]).amount = ix.amount
        /\ Rec(out.L, ix.acc[4]).fee = ix.fee
        /\ VaultHandedOver(out.L, ix.acc)

\* C14: after every successful Init the record is Open, its payer, payer
\* token, payee token, vault token, fee token and authority fields equal
\* the supplied accounts, its amount and fee equal the supplied values, and
\* the owner of the vault token account is the derived address; this is
\* what the invocation commits.
C14_InitStoresWhatWasSupplied ==
    /\ last = Idle => \A ix \in InitInputs : InitStores(ix, process_instruction(Ledger, ix))
    /\ (last.op = "InitEscrow" /\ last.res = "Ok")
          => /\ RecordNamesAccounts(Ledger, last.acc[4], last.acc)
             /\ VaultHandedOver(Ledger, last.acc)

\* An Init succeeded with a fee below the amount and distinct payee and fee
\* accounts.
C14_Witness ==
    /\ last.op = "InitEscrow" /\ last.res = "Ok"
    /\ last.acc[6] # last.acc[7]
    /\ Rec(Ledger, E).amount = 2 /\ Rec(Ledger, E).fee = 1
    /\ data[V].owner = PDA

(***************************************************************************)
(* C15.  Init on a record that is already initialized.                     *)
(***************************************************************************)
\* The Init invocations that name an escrow account holding an initialized
\* record (Open, Settled or Canceled).
InitsOnRecord(L) == { ix \in InitInputs : IsRecord(L, EscrowOf(ix)) }

\* Ledger L with a blank region in account k.
Blanked(L, k) == [L EXCEPT !.data[k] = RegionData(ZeroRegion)]

\* The invocation passes every test Init makes before it reads the record:
\* on a blank record and with a fee of zero it goes on to write.
ReachesRecordTest(L, ix) ==
    process_instruction(Blanked(L, EscrowOf(ix)), [ix EXCEPT !.fee = 0]).log # << >>

ReInitGetsCode(L, out) == out.res = "AccountAlreadyInitialized" /\ out.L = L

ReInitRefused(L, ix, out) ==
    /\ out.res # "Ok"
    /\ out.L = L
    /\ ReachesRecordTest(L, ix) => out.res = "AccountAlreadyInitialized"

\* C15 as stated: every Init on an escrow record that is already
\* initialized (Open, Settled or Canceled) fails with
\* AccountAlreadyInitialized and leaves every field of the record unchanged.
C15_ReInitGetsAlreadyInitialized ==
    last = Idle => \A ix \in InitsOnRecord(Ledger) : ReInitGetsCode(Ledger, process_instruction(Ledger, ix))

\* C15 amended: every such Init fails and leaves every field of the record,
\* and every other account, unchanged; it fails with
\* AccountAlreadyInitialized when the invocation passes the tests Init makes
\* before it reads the record (signatures, vault balance equal to amount,
\* token accounts, rent).
C15_ReInitRefused ==
    last = Idle => \A ix \in InitsOnRecord(Ledger) : ReInitRefused(Ledger, ix, process_instruction(Ledger, ix))

\* An Init was refused with AccountAlreadyInitialized on a settled record.
C15_Witness ==
    /\ last.op = "InitEscrow" /\ last.res = "AccountAlreadyInitialized"
    /\ Flags(Ledger, E) = <<TRUE, TRUE, FALSE>>

(***************************************************************************)
(* C16.  The documented account lists.                                     *)
(***************************************************************************)
\* The accounts each instruction documents, by position ("Accounts
\* expected" of EscrowInstruction).
AccountsExpected(op) ==
    IF op = "InitEscrow"
    THEN <<"payer", "vault_token", "authority", "escrow", "payer_token",
           "payee_token", "fee_token", "rent", "token_program">>
    ELSE IF op = "Settle"
    THEN <<"authority", "payee_token", "fee_token", "vault_token",
           "fee_payer", "escrow", "token_program", "derived_authority">>
    ELSE IF op = "Cancel"
    THEN <<"authority", "escrow", "payer_token", "fee_payer",
           "vault_token", "token_program", "derived_authority">>
    ELSE <<"authority", "escrow", "fee_payer">>

\* The documented position of a role in the list of instruction op (0 when
\* the instruction documents no such account).
ExpectedPosition(op, role) ==
    IF \E i \in 1 .. Len(AccountsExpected(op)) : AccountsExpected(op)[i] = role
    THEN CHOOSE i \in 1 .. Len(AccountsExpected(op)) : AccountsExpected(op)[i] = role
    ELSE 0

\* The account the documentation says a role must be: the well-known keys,
\* and for Settle, Cancel and Close the accounts the record rec names.  A
\* role the documentation does not tie to a key is met by any account k.
ExpectedKey(op, role, rec, k) ==
    IF role = "token_program" THEN SPL_TOKEN_ID
    ELSE IF role = "rent" THEN RENT_ID
    ELSE IF role = "derived_authority" THEN PDA
    ELSE IF op = "InitEscrow" THEN k
    ELSE IF role = "authority" THEN rec.authority
    ELSE IF role = "payee_token" THEN rec.payee_token
    ELSE IF role = "fee_token" THEN rec.fee_token
    ELSE IF role = "vault_token" THEN rec.vault_token
    ELSE IF role = "payer_token" THEN rec.payer_token
    ELSE k

\* The list of invocation ix is the documented one: the documented number of
\* accounts, each documented position holding the account of its role.
FollowsDocumentation(L, ix) ==
    /\ Len(ix.acc) = Len(AccountsExpected(ix.op))
    /\ (ix.op # "InitEscrow" => IsRecord(L, ix.acc[ExpectedPosition(ix.op, "escrow")]))
    /\ \A i \in 1 .. Len(ix.acc) :
          ix.acc[i] = ExpectedKey(ix.op, AccountsExpected(ix.op)[i],
                                  Rec(L, ix.acc[ExpectedPosition(ix.op, "escrow")]), ix.acc[i])

\* The invocation of op on the record in account e laid out as documented,
\* signed by the recorded authority, with P as fee payer.
DocumentedInvocation(L, op, e) ==
    Invocation(op,
               [i \in 1 .. Len(AccountsExpected(op)) |->
                    ExpectedKey(op, AccountsExpected(op)[i], Rec(L, e),
                                IF AccountsExpected(op)[i] = "escrow" THEN e ELSE P)],
               {Rec(L, e).authority}, 0, 0)

\* The invocations of the four handlers, and the same with one more account
\* at the end of the list.
HandlerInputs == InitInputs \cup SettleInputs \cup CancelInputs \cup CloseInputs
LongerInputs == { [ix EXCEPT !.acc = Append(@, M)] : ix \in HandlerInputs }

\* The record in E is one the operation is due on: Open with its vault in
\* custody for Settle and Cancel, Settled or Canceled for Close.
Due(op) ==
    IF op = "Close" THEN IsTerminal(Ledger, E)
    ELSE IsOpen(Ledger, E) /\ InCustody(V) /\ Rec(Ledger, E).vault_token = V

\* A handler takes the list laid out as documented: the documented
\* invocation that is due is not refused for its accounts.
ReadsDocumentedOrder ==
    \A op \in {"Settle", "Cancel", "Close"} :
        Due(op) => process_instruction(Ledger, DocumentedInvocation(Ledger, op, E)).res
                        \in {"Ok", "AmountOverflow"}

SucceedsOnlyAsDocumented(ix, out) ==
    out.res = "Ok" => FollowsDocumentation(Ledger, ix)

\* Every other list fails.
OtherListsFail ==
    \A ix \in HandlerInputs \cup LongerInputs :
        SucceedsOnlyAsDocumented(ix, process_instruction(Ledger, ix))

\* C16: each handler reads its account list in the order documented on its
\* instruction (for Settle: authority, payee token, fee token, vault token,
\* fee payer, escrow record, token program, derived authority), and an
\* invocation whose account list differs from that list in count, order or
\* identity fails.
C16_DocumentedListOrFailure ==
    last = Idle => (ReadsDocumentedOrder /\ OtherListsFail)

(***************************************************************************)
(* The record codec on its own: account F holds any 211-byte region, a     *)
(* record is packed into it (Pack::pack) or unpacked from it               *)
(* (Pack::unpack_unchecked).  In this specification `last` notes the       *)
(* codec call and the record it took or gave.                              *)
(***************************************************************************)
\* Values of a flag byte: the two a bool is written as, and two others.
FlagBytes == {0, 1, 2, 255}

\* Eight bytes of an integer field: the two low bytes vary, the six high
\* bytes are zero.
IntegerBytes == { <<a, b, 0, 0, 0, 0, 0, 0>> : a \in {0, 1, 255}, b \in {0, 1, 255} }

\* 211-byte regions: any flag bytes, six distinct keys, any integer bytes.
Regions ==
    { <<f1, f2, f3, P, T1, T2, V, A, M, am, fe>> :
        f1 \in FlagBytes, f2 \in FlagBytes, f3 \in FlagBytes,
        am \in IntegerBytes, fe \in IntegerBytes }

\* Values of an integer field of a record.
IntegerValues == {0, 1, 255, 256, 65535}

\* Records: any flags, six distinct keys, any integers.
Records ==
    { [err |-> "Ok", is_initialized |-> i, is_settled |-> s, is_canceled |-> c,
       payer |-> P, payer_token |-> T1, payee_token |-> T2, vault_token |-> V,
       authority |-> A, fee_token |-> M, amount |-> am, fee |-> fe] :
        i \in BOOLEAN, s \in BOOLEAN, c \in BOOLEAN,
        am \in IntegerValues, fe \in IntegerValues }

CodecCall(op, res, escrow) ==
    [op |-> op, res |-> res, acc |-> << >>, signers |-> {}, escrow |-> escrow]

CodecInit ==
    /\ \E b \in Regions :
          data = [k \in StateKeys |->
                    IF k = U THEN UninitializedTokenData
                    ELSE IF k \in TokenAccounts THEN TokenData(FALSE, "Y", 0)
                    ELSE IF k = E THEN RegionData(ZeroRegion)
                    ELSE IF k = F THEN RegionData(b)
                    ELSE NoData]
    /\ lamports = [k \in StateKeys |-> 1]
    /\ owner = [k \in StateKeys |->
                    IF k \in TokenAccounts THEN SPL_TOKEN_ID
                    ELSE IF k = E THEN PROGRAM_ID
                    ELSE IF k = F THEN FOREIGN_ID
                    ELSE SYSTEM_ID]
    /\ custody = [k \in TokenAccounts |-> "none"]
    /\ terminations = 0
    /\ last = Idle

\* Escrow::pack(r, region of F)
PackRecord ==
    /\ last = Idle
    /\ \E r \in Records :
          /\ data' = [data EXCEPT ![F] = RegionData(pack_into_slice(r))]
          /\ last' = CodecCall("pack", "Ok", r)
    /\ UNCHANGED <<lamports, owner, custody, terminations>>

\* Escrow::unpack_unchecked(region of F)
UnpackRegion ==
    /\ last = Idle
    /\ last' = CodecCall("unpack", Escrow_unpack_unchecked(data[F]).err,
                         Escrow_unpack_unchecked(data[F]))
    /\ UNCHANGED <<lamports, owner, data, custody, terminations>>

CodecNext == PackRecord \/ UnpackRegion \/ Return

CodecSpec == CodecInit /\ [][CodecNext]_vars

(***************************************************************************)
(* C17.  The record codec is a faithful round trip.                        *)
(***************************************************************************)
\* The three flag bytes of the region in F are 0 or 1.
FlagBytesBoolean ==
    \A i \in 1 .. 3 : data[F].bytes[i] \in {0, 1}

\* C17: decoding the encoding of a record gives the record back; encoding
\* the decoding of a 211-byte region whose first three bytes are 0 or 1
\* gives the region back; a region with any other value in one of those
\* bytes fails to decode with InvalidAccountData.
C17_CodecRoundTrip ==
    /\ last.op = "pack" => Escrow_unpack_unchecked(data[F]) = last.escrow
    /\ last.op = "unpack" =>
          IF FlagBytesBoolean
          THEN last.res = "Ok" /\ pack_into_slice(last.escrow) = data[F].bytes
          ELSE last.res = "InvalidAccountData"

\* A region whose integer fields use two bytes and whose flags differ was
\* decoded.
C17_Witness ==
    /\ last.op = "unpack" /\ last.res = "Ok"
    /\ last.escrow.amount = 65535 /\ last.escrow.fee = 256
    /\ last.escrow.is_canceled /\ ~last.escrow.is_settled

(***************************************************************************)
(* instruction.rs: the instruction codec, and Processor::process on the    *)
(* undecoded instruction data.                                             *)
(***************************************************************************)
\* EscrowInstruction::unpack_amount: input.get(..8) as a little-endian u64.
unpack_amount(input) ==
    IF Len(input) < 8 THEN [err |-> "InvalidInstruction"]
    ELSE [err |-> "Ok", value |-> from_le_bytes(SubSeq(input, 1, 8))]

\* Variant of unpack_fee that reads the bytes of the amount.
unpack_fee_from_amount_bytes(input) ==
    IF Len(input) < 16 THEN [err |-> "InvalidInstruction"]
    ELSE [err |-> "Ok", value |-> from_le_bytes(SubSeq(input, 1, 8))]

\* EscrowInstruction::unpack_fee: input.get(8..16) as a little-endian u64.
unpack_fee(input) ==
    IF Len(input) < 16 THEN [err |-> "InvalidInstruction"]
    ELSE [err |-> "Ok", value |-> from_le_bytes(SubSeq(input, 9, 16))]

\* A decoded instruction.
Decoded(op, amount, fee) == [err |-> "Ok", op |-> op, amount |-> amount, fee |-> fee]

\* EscrowInstruction::unpack
EscrowInstruction_unpack(input) ==
    IF Len(input) = 0 THEN [err |-> "InvalidInstruction"]
    ELSE IF input[1] = 0
    THEN IF unpack_amount(Tail(input)).err # "Ok" THEN [err |-> "InvalidInstruction"]
         ELSE IF unpack_fee(Tail(input)).err # "Ok" THEN [err |-> "InvalidInstruction"]
         ELSE Decoded("InitEscrow", unpack_amount(Tail(input)).value,
                      unpack_fee(Tail(input)).value)
    ELSE IF input[1] = 1 THEN Decoded("Settle", 0, 0)
    ELSE IF input[1] = 2 THEN Decoded("Cancel", 0, 0)
    ELSE IF input[1] = 3 THEN Decoded("Close", 0, 0)
    ELSE [err |-> "InvalidInstruction"]

\* The handler of a decoded instruction, or the failure of the decoding.
dispatch(L, acc, signers, instruction) ==
    IF instruction.err # "Ok" THEN Outcome(instruction.err, L, << >>)
    ELSE process(L, Invocation(instruction.op, acc, signers,
                               instruction.amount, instruction.fee))

\* Processor::process on instruction data: unpack, then the handler.
Processor_process(L, acc, signers, instruction_data) ==
    dispatch(L, acc, signers, EscrowInstruction_unpack(instruction_data))

(***************************************************************************)
(* The program behind its instruction codec: callers submit instruction    *)
(* data with an account list.  In this specification `last` notes the      *)
(* instruction data of the invocation being reported.                      *)
(***************************************************************************)
\* First bytes of the instruction data.
Tags == {0, 1, 2, 3, 4, 255}

\* Amounts and fees spelled in the instruction data.
WireAmounts == {0, 1, 2, 256}

\* The lengths at which the data of an Init is cut: in the amount, after
\* it, in the fee, after it, and one byte beyond.
PayloadLengths == {7, 8, 15, 16, 17}

InstructionData ==
    {<< >>}
    \cup { <<t>> : t \in Tags }
    \cup { <<t, 7>> : t \in Tags }
    \cup { <<0>> \o SubSeq(to_le_bytes(am) \o to_le_bytes(fe) \o <<9>>, 1, n) :
              am \in WireAmounts, fe \in WireAmounts, n \in PayloadLengths }

\* One well-formed account list per handler and kind of vault.
WireAccountLists ==
    { <<P, V, A, E, pt, T1, T2, RENT_ID, SPL_TOKEN_ID>> : pt \in {P, T1} }
    \cup { <<A, T1, T2, V, E, P, SPL_TOKEN_ID, PDA>> }
    \cup { <<A, E, pt, P, V, SPL_TOKEN_ID, PDA>> : pt \in {P, T1} }
    \cup { <<A, E, P>> }

WireSigners == {P, A}

WireCall(instruction_data, res) ==
    [op |-> "process", res |-> res, acc |-> << >>, signers |-> {},
     instruction_data |-> instruction_data]

WireReport(instruction_data, out) ==
    [L |-> Commit(Ledger, out), custody |-> custody, terminations |-> terminations,
     last |-> WireCall(instruction_data, out.res)]

\* One invocation of the program's entry point.
Submit ==
    /\ last = Idle
    /\ \E acc \in WireAccountLists, d \in InstructionData :
          \E out \in {Processor_process(Ledger, acc, WireSigners, d)} :
              Becomes(WireReport(d, verified(Ledger, out)))

WireNext == Submit \/ Return \/ Deposit

WireSpec == Init /\ [][WireNext]_vars

(***************************************************************************)
(* C18.  Instruction decoding.                                             *)
(***************************************************************************)
\* The instruction named by a tag other than 0.
OpOfTag(t) == IF t = 1 THEN "Settle" ELSE IF t = 2 THEN "Cancel" ELSE "Close"

\* Instruction data the decoding refuses: empty, an unknown tag, or tag 0
\* with fewer than 16 bytes after it.
Malformed(d) ==
    Len(d) = 0 \/ d[1] \notin 0 .. 3 \/ (d[1] = 0 /\ Len(d) < 17)

\* Tag 0 followed by the little-endian amount and fee, and by anything,
\* runs Init with that amount and fee.
InitDecoded ==
    \A acc \in WireAccountLists, am \in WireAmounts, fe \in WireAmounts,
       more \in {<< >>, <<9>>} :
        Processor_process(Ledger, acc, WireSigners,
                          <<0>> \o to_le_bytes(am) \o to_le_bytes(fe) \o more)
          = process(Ledger, Invocation("InitEscrow", acc, WireSigners, am, fe))

\* Tags 1, 2 and 3 run Settle, Cancel and Close.
OthersDecoded ==
    \A acc \in WireAccountLists, t \in 1 .. 3, more \in {<< >>, <<7>>} :
        Processor_process(Ledger, acc, WireSigners, <<t>> \o more)
          = process(Ledger, Invocation(OpOfTag(t), acc, WireSigners, 0, 0))

\* Malformed data fails with InvalidInstruction and no handler runs.
MalformedRefused ==
    \A acc \in WireAccountLists, d \in InstructionData :
        Malformed(d) => Processor_process(Ledger, acc, WireSigners, d)
                            = Outcome("InvalidInstruction", Ledger, << >>)

\* C18: tag 0 with at least 16 following bytes decodes to Init(amount, fee),
\* both little-endian 64-bit integers; tags 1, 2, 3 decode to Settle,
\* Cancel, Close; an empty buffer, any other tag, or tag 0 with fewer than
\* 16 payload bytes fails with InvalidInstruction and no handler runs.
C18_InstructionDecoding ==
    /\ last = Idle => (InitDecoded /\ OthersDecoded /\ MalformedRefused)
    /\ last.op = "process"
          => (last.res = "InvalidInstruction" <=> Malformed(last.instruction_data))

\* An Init submitted as bytes, with a trailing byte, succeeded and stored
\* the amount and fee the bytes spell.
C18_Witness ==
    /\ last.op = "process" /\ last.res = "Ok"
    /\ last.instruction_data = <<0, 2, 0, 0, 0, 0, 0, 0, 0, 1, 0, 0, 0, 0, 0, 0, 0, 9>>
    /\ IsOpen(Ledger, E)
    /\ Rec(Ledger, E).amount = 2 /\ Rec(Ledger, E).fee = 1

(***************************************************************************)
(* C19.  Cancel rejects what Settle rejects.                               *)
(***************************************************************************)
\* The accounts Settle and Cancel have in common, at the positions each
\* handler reads them.
Common(ix) ==
    IF ix.op = "Settle"
    THEN [authority |-> ix.acc[1], escrow |-> ix.acc[5], vault_token |-> ix.acc[4],
          token_program |-> ix.acc[7], derived_authority |-> ix.acc[8]]
    ELSE [authority |-> ix.acc[1], escrow |-> ix.acc[2], vault_token |-> ix.acc[5],
          token_program |-> ix.acc[6], derived_authority |-> ix.acc[7]]

\* One of the grounds of rejection the two handlers share holds for the
\* invocation: the authority has not signed, the record is not Open, the
\* authority or the vault is not the recorded one, the vault is not owned
\* by the token ledger, the token program or the derived authority is not
\* the expected one.
SharedGround(L, ix) ==
    \/ Common(ix).authority \notin ix.signers
    \/ ~IsOpen(L, Common(ix).escrow)
    \/ Common(ix).authority # Rec(L, Common(ix).escrow).authority
    \/ Common(ix).vault_token # Rec(L, Common(ix).escrow).vault_token
    \/ L.owner[Common(ix).vault_token] # SPL_TOKEN_ID
    \/ Common(ix).token_program # SPL_TOKEN_ID
    \/ Common(ix).derived_authority # PDA

RejectedOnSharedGround(L, ix, out) == SharedGround(L, ix) => out.res # "Ok"

\* The ledger in which token account k, data unchanged, is owned by another
\* program than the token ledger.
Disowned(L, k) == [L EXCEPT !.owner[k] = FOREIGN_ID]

\* C19: every invocation that Settle rejects because of the signer, the
\* recorded authority, the Open state, the vault key, the vault's ownership
\* by the token ledger, the token program's identity or the derived
\* authority's address is also rejected by Cancel: on each of these grounds
\* both handlers fail, also when the vault is a token-shaped account of
\* another program.
C19_CancelRejectsWhatSettleRejects ==
    last = Idle =>
        /\ \A ix \in SettleInputs : RejectedOnSharedGround(Ledger, ix, process_instruction(Ledger, ix))
        /\ \A ix \in CancelInputs : RejectedOnSharedGround(Ledger, ix, process_instruction(Ledger, ix))
        /\ \A ix \in CancelInputs :
              process_instruction(Disowned(Ledger, Common(ix).vault_token), ix).res # "Ok"

\* A Cancel naming another program as the token program was rejected, by
\* the instruction builder, on an Open record whose vault is in custody.
C19_Witness ==
    /\ last.op = "Cancel" /\ last.res = "IncorrectProgramId"
    /\ IsOpen(Ledger, E) /\ InCustody(V)

(***************************************************************************)
(* C20.  Settle and Cancel move value between the recorded accounts only.  *)
(***************************************************************************)
\* The accounts invocation ix supplies to receive the escrowed amount.
Recipients(ix) == IF ix.op = "Settle" THEN {ix.acc[2], ix.acc[3]} ELSE {ix.acc[3]}

\* The vault and the recipients of ix are those the record rec names.
NamesRecordedAccounts(ix, rec) ==
    /\ rec.err = "Ok"
    /\ VaultOf(ix) = rec.vault_token
    /\ IF ix.op = "Settle"
       THEN ix.acc[2] = rec.payee_token /\ ix.acc[3] = rec.fee_token
       ELSE ix.acc[3] = rec.payer_token

\* What account k, neither vault nor recipient, may gain: nothing, but for
\* the escrow account of a native vault, which keeps the vault's rent
\* reserve.
RentKept(L, ix, k) ==
    IF L.data[VaultOf(ix)].is_native /\ k = EscrowOf(ix)
    THEN L.lamports[VaultOf(ix)] - L.data[VaultOf(ix)].amount
    ELSE 0

\* Between ledgers L and L2 either the vault of ix gave all it held, the
\* recipients lost nothing and no other account gained or lost, or no
\* account gained or lost anything.
MovedVaultToRecipients(L, L2, ix) ==
    \/ /\ VaultValue(L2, VaultOf(ix)) = 0
       /\ \A k \in Recipients(ix) \ {VaultOf(ix)} :
             Gain(L, L2, k, L.data[VaultOf(ix)].is_native) >= 0
       /\ \A k \in StateKeys \ (Recipients(ix) \cup {VaultOf(ix)}) :
             Gain(L, L2, k, L.data[VaultOf(ix)].is_native) = RentKept(L, ix, k)
    \/ \A k \in StateKeys : Gain(L, L2, k, L.data[VaultOf(ix)].is_native) = 0

RecordedAccountsOnly(L, ix, out) ==
    IF NamesRecordedAccounts(ix, Rec(L, EscrowOf(ix)))
    THEN out.res = "Ok" => MovedVaultToRecipients(L, out.L, ix)
    ELSE out.res # "Ok" /\ out.log = << >>

\* C20: a successful Settle or Cancel on record R takes value only from
\* the vault whose key is R's recorded vault token account and delivers it
\* only to R's recorded payee and fee token accounts (Settle) or R's
\* recorded payer token account (Cancel); an invocation supplying any other
\* account in one of those positions fails before any transfer is issued.
C20_RecordedAccountsOnly ==
    last = Idle =>
        \A ix \in SettleInputs \cup CancelInputs :
            RecordedAccountsOnly(Ledger, ix, process_instruction(Ledger, ix))

\* A Settle succeeded on the record in E: the vault is gone and the
\* recorded payee T1 and fee account T2 hold its two tokens.
C20_Witness ==
    /\ last.op = "Settle" /\ last.res = "Ok" /\ last.acc[5] = E
    /\ last.acc[2] = T1 /\ last.acc[3] = T2
    /\ Rec(Ledger, E).payee_token = T1 /\ Rec(Ledger, E).fee_token = T2
    /\ Bal(Ledger, T1, FALSE) = 1 /\ Bal(Ledger, T2, FALSE) = 1
    /\ VaultValue(Ledger, V) = 0

(***************************************************************************)
(* C21.  Settle when the recorded fee exceeds the vault's balance.         *)
(***************************************************************************)
\* The Settle invocations whose escrow account holds a record with a fee
\* above the balance of the token account in the vault position.
SettlesFeeAboveVault(L) ==
    { ix \in SettleInputs :
        /\ Rec(L, EscrowOf(ix)).err = "Ok"
        /\ L.data[VaultOf(ix)].kind = "token"
        /\ Rec(L, EscrowOf(ix)).fee > L.data[VaultOf(ix)].amount }

\* The invocation passes every test Settle makes before its fee test.
PassesSettleChecks(L, ix) ==
    ~SharedGround(L, ix) /\ NamesRecordedAccounts(ix, Rec(L, EscrowOf(ix)))

SettleRefusedFeeOverflow(L, ix, out) ==
    /\ out.res = "FeeOverflow"
    /\ out.log = << >>
    /\ out.L = L
    /\ IsOpen(out.L, EscrowOf(ix))

SettleRefusedNothingMoved(L, ix, out) ==
    /\ out.res # "Ok"
    /\ out.log = << >>
    /\ out.L = L
    /\ PassesSettleChecks(L, ix)
          => (out.res = "FeeOverflow" /\ IsOpen(out.L, EscrowOf(ix)))

\* C21 as stated: a Settle invoked when the record's fee exceeds the
\* vault's current balance fails with FeeOverflow, issues no transfer or
\* close instruction, changes no balance, and leaves the record Open.
C21_FeeAboveVaultGetsFeeOverflow ==
    last = Idle
        => \A ix \in SettlesFeeAboveVault(Ledger) :
                SettleRefusedFeeOverflow(Ledger, ix, process_instruction(Ledger, ix))

\* C21 amended: every such Settle fails, issues no transfer or close
\* instruction and changes no balance and no record; it fails with
\* FeeOverflow, on a record that is and stays Open, when the invocation
\* passes the tests Settle makes before the fee test (signature, vault
\* owned by the token ledger, record Open, recorded authority, payee, fee
\* and vault accounts, token program, derived authority).
C21_FeeAboveVaultRefused ==
    last = Idle
        => \A ix \in SettlesFeeAboveVault(Ledger) :
                SettleRefusedNothingMoved(Ledger, ix, process_instruction(Ledger, ix))

\* A Settle was refused with FeeOverflow: the record in the account of
\* another program is Open and names the vault V with a fee of 1, the vault
\* holds nothing, and the record Init wrote into E is Open as well.
C21_Witness ==
    /\ last.op = "Settle" /\ last.res = "FeeOverflow"
    /\ IsOpen(Ledger, F) /\ Rec(Ledger, F).fee = 1
    /\ Rec(Ledger, F).vault_token = V /\ VaultValue(Ledger, V) = 0
    /\ InCustody(V) /\ IsOpen(Ledger, E)

(***************************************************************************)
(* C22.  Settle marks the record last.                                     *)
(***************************************************************************)
\* Effect e is among the effects log, before position n.
Before(log, e, n) == \E i \in 1 .. n - 1 : log[i] = e

\* The effects that must precede the write of the settled record: the
\* payout (a token transfer, or for a native vault a credit of lamports),
\* the fee (when fee > 0) and the close of the vault.
PaidAndClosedBefore(log, n, fee) ==
    /\ Before(log, "transfer_payee", n) \/ Before(log, "credit_payee", n)
    /\ fee > 0 => (Before(log, "transfer_fee", n) \/ Before(log, "credit_fee", n))
    /\ Before(log, "close_account", n)

\* The settled flag of the record in account k, FALSE when k holds none.
SettledFlag(L, k) == Rec(L, k).err = "Ok" /\ Rec(L, k).is_settled

SettleMarksLast(L, ix, out) ==
    /\ PackCount(out.log) <= 1
    /\ PackCount(out.log) = 1 =>
          /\ out.log[Len(out.log)] = "pack"
          /\ out.res = "Ok"
          /\ PaidAndClosedBefore(out.log, Len(out.log), Rec(L, EscrowOf(ix)).fee)
          /\ SettledFlag(out.L, EscrowOf(ix))
    /\ out.res = "Ok" => PackCount(out.log) = 1
    /\ out.res # "Ok" => SettledFlag(out.L, EscrowOf(ix)) = SettledFlag(L, EscrowOf(ix))

\* Every Settle input, in every state: the handler marks last.
SettleInputsMarkLast ==
    last = Idle =>
        \A ix \in SettleInputs : SettleMarksLast(Ledger, ix, process(Ledger, ix))

\* A step that is a failed Settle leaves every record as it was.
FailedSettleKeepsRecords ==
    (last'.op = "Settle" /\ last'.res # "Ok") => data' = data

\* C22: within a Settle invocation the write of settled = true is the last
\* effect: it comes after the payout, the fee transfer (when fee > 0) and
\* the close of the vault have all succeeded, and a failure of any of
\* those steps leaves the record's settled flag as it was, false.
C22_SettleMarksLast == []SettleInputsMarkLast /\ [][FailedSettleKeepsRecords]_vars

\* A Settle of a native vault failed in its arithmetic after the vault had
\* been closed: the record in E, of non-zero fee, is still Open and the
\* vault is still there.
C22_Witness ==
    /\ last.op = "Settle" /\ last.res = "AmountOverflow"
    /\ IsOpen(Ledger, E) /\ Rec(Ledger, E).fee > 0
    /\ InCustody(V) /\ data[V].is_native

(***************************************************************************)
(* C23.  Close conserves value.                                            *)
(***************************************************************************)
\* The recipient (account 3) gained what the escrow account (account 2)
\* held, the escrow account holds nothing, and the two balances add up to
\* what they added up to before.
CloseMovesBalance(L, ix, out) ==
    /\ out.L.lamports[ix.acc[3]] - L.lamports[ix.acc[3]] = L.lamports[ix.acc[2]]
    /\ out.L.lamports[ix.acc[2]] = 0
    /\ out.L.lamports[ix.acc[3]] + out.L.lamports[ix.acc[2]]
          = L.lamports[ix.acc[3]] + L.lamports[ix.acc[2]]

\* C23: a Close that the handler carries through (it returns Ok) conserves
\* value: the designated recipient's balance increases by exactly the
\* escrow account's balance before the call, the escrow account's balance
\* becomes 0, and the sum of the two balances is the same before and after,
\* for every choice of recipient account including the escrow account
\* itself.
C23_CloseConservesValue ==
    last = Idle =>
        \A ix \in CloseInputs :
            process(Ledger, ix).res = "Ok"
                => CloseMovesBalance(Ledger, ix, process(Ledger, ix))

(***************************************************************************)
(* C24.  The native-currency payout of Settle.                             *)
(***************************************************************************)
\* The Settle has closed the vault into the escrow account: the native
\* payout's adjustments are what follows.
NativePayout(out) == Len(out.log) > 0 /\ out.log[1] = "close_account"

\* The escrow, payee and fee accounts of a Settle.
PayoutParties(ix) == {EscrowOf(ix), ix.acc[2], ix.acc[3]}

\* The sum of the lamports of the accounts `keys`.
RECURSIVE TotalLamports(_, _)
TotalLamports(lam, keys) ==
    IF keys = {} THEN 0
    ELSE LET k == CHOOSE x \in keys : TRUE
         IN  lam[k] + TotalLamports(lam, keys \ {k})

\* One of the payout's subtractions or additions leaves the range of u64:
\* the escrow account, holding its own balance and the closed vault's,
\* cannot cover the payout and then the fee, or the payee or the fee
\* account cannot take its credit.
PayoutOverflows(L, ix) ==
    LET fee    == Rec(L, EscrowOf(ix)).fee
        amount == L.data[VaultOf(ix)].amount - fee
        held   == L.lamports[EscrowOf(ix)] + L.lamports[VaultOf(ix)]
        payee  == L.lamports[ix.acc[2]] + amount
        feeAcc == (IF ix.acc[3] = ix.acc[2] THEN payee ELSE L.lamports[ix.acc[3]]) + fee
    IN  \/ held < amount
        \/ payee > U64_MAX
        \/ fee > 0 /\ (held - amount < fee \/ feeAcc > U64_MAX)

\* What the native payout of one Settle does.
NativePayoutHolds(L, ix, out) ==
    NativePayout(out) =>
        /\ out.res \in {"Ok", "AmountOverflow"}
        /\ out.res = "AmountOverflow" <=> PayoutOverflows(L, ix)
        /\ out.res = "Ok" =>
              /\ TotalLamports(out.L.lamports, PayoutParties(ix))
                    = TotalLamports(L.lamports, PayoutParties(ix))
                         + L.lamports[VaultOf(ix)]
              /\ out.L.lamports[EscrowOf(ix)] >= L.lamports[EscrowOf(ix)]
        /\ out.res = "AmountOverflow" => Commit(L, out) = L

NativePayoutsHold ==
    last = Idle =>
        \A ix \in SettleInputs : NativePayoutHolds(Ledger, ix, process(Ledger, ix))

\* A Settle that failed with AmountOverflow changed nothing.
OverflowKeepsBalances ==
    (last'.op = "Settle" /\ last'.res = "AmountOverflow") =>
        (lamports' = lamports /\ data' = data /\ owner' = owner)

\* C24: in the native-currency path of Settle, after the vault is closed
\* into the escrow account, the total balance of the escrow, payee and fee
\* accounts is unchanged by the payout and fee adjustments, the escrow
\* account's balance never ends below its balance before the Settle, and
\* if any checked subtraction or addition overflows the call fails with
\* AmountOverflow with no balance left partly adjusted.
C24_NativePayoutConserves == []NativePayoutsHold /\ [][OverflowKeepsBalances]_vars

\* A native Settle on E has failed with AmountOverflow at the credit of the
\* fee account, which already holds the largest u64: by then the handler
\* had closed the vault, debited the escrow account twice and credited the
\* payee; the vault is still in custody and every balance is as before.
C24_Witness ==
    /\ last.op = "Settle" /\ last.res = "AmountOverflow"
    /\ IsOpen(Ledger, E) /\ Rec(Ledger, E).fee > 0
    /\ Rec(Ledger, E).fee_token = M /\ lamports[M] = U64_MAX
    /\ InCustody(V) /\ data[V].is_native /\ lamports[V] > 0

(***************************************************************************)
(* C25.  The terms of a record are fixed from Init to Close.               *)
(***************************************************************************)
\* Records r1 and r2 have the same payer, payer-token, payee-token,
\* vault-token, fee-token, authority, amount and fee.
SameTerms(r1, r2) ==
    /\ r1.payer = r2.payer
    /\ r1.payer_token = r2.payer_token
    /\ r1.payee_token = r2.payee_token
    /\ r1.vault_token = r2.vault_token
    /\ r1.fee_token = r2.fee_token
    /\ r1.authority = r2.authority
    /\ r1.amount = r2.amount
    /\ r1.fee = r2.fee

\* The step is a successful op on the record in account k.
ActsOn(op, k) ==
    /\ last'.op = op /\ last'.res = "Ok"
    /\ last'.acc[IF op = "Settle" THEN 5 ELSE 2] = k

\* A step that changes the account of an initialized record is the
\* removal of the account a Close has left without lamports, a Settle that
\* sets `settled` and nothing else, or a Cancel that sets `canceled` and
\* nothing else; a Close changes none of its bytes.
RecordFrame(k) ==
    (data'[k] # data[k] /\ IsRecord(Ledger, k)) =>
        \/ lamports[k] = 0 /\ IsTerminal(Ledger, k) /\ data'[k] = NoData
        \/ /\ ActsOn("Settle", k)
           /\ Escrow_unpack_unchecked(data'[k]) = [Rec(Ledger, k) EXCEPT !.is_settled = TRUE]
           /\ SameTerms(Escrow_unpack_unchecked(data'[k]), Rec(Ledger, k))
        \/ /\ ActsOn("Cancel", k)
           /\ Escrow_unpack_unchecked(data'[k]) = [Rec(Ledger, k) EXCEPT !.is_canceled = TRUE]
           /\ SameTerms(Escrow_unpack_unchecked(data'[k]), Rec(Ledger, k))

\* A successful Settle or Cancel does change the record's account.
TerminationMarks(k) ==
    ((ActsOn("Settle", k) \/ ActsOn("Cancel", k)) /\ IsRecord(Ledger, k)) =>
        data'[k] # data[k]

\* C25: from a successful Init until Close, the record's payer,
\* payer-token, payee-token, vault-token, fee-token, authority, amount and
\* fee fields never change: Settle changes only `settled`, Cancel changes
\* only `canceled`, and `amount` stays the value recorded at Init even when
\* the vault's balance later differs.
C25_TermsFixedUntilClose ==
    [][\A k \in {E, F} : RecordFrame(k) /\ TerminationMarks(k)]_vars

\* A Settle on E has paid the payee T1 a token that was sent to the vault
\* after Init recorded amount 0: the record is settled and its amount is
\* still 0.
C25_Witness ==
    /\ last.op = "Settle" /\ last.res = "Ok" /\ last.acc[5] = E
    /\ last.acc[2] = T1 /\ data[T1].amount >= 1
    /\ Rec(Ledger, E).is_settled /\ ~Rec(Ledger, E).is_canceled
    /\ Rec(Ledger, E).amount = 0 /\ Rec(Ledger, E).payee_token = T1

====
